---- MODULE Spec2Model ----
(***************************************************************************)
(* A model of the batched update scheduler of React 15.6.1:                *)
(*   CallbackQueue      (src/renderers/shared/utils/CallbackQueue.js)      *)
(*   ReactUpdates       (src/renderers/shared/stack/reconciler)            *)
(*   ReactReconciler    (the reconciliation dispatcher)                    *)
(* together with the Transaction protocol the flush transaction mixes in.  *)
(***************************************************************************)
EXTENDS Integers, Sequences, FiniteSets, TLC

VARIABLES
    cq,        \* the CallbackQueue object under test
    cqRun,     \* the notifyAll call on cq that is running or has just ended
    cqGhost,   \* the (callback, context) pairs owed by cq, in enqueue order
    cqTampered, \* internal state of cq was manipulated directly
    cqMark,    \* the last checkpoint() taken of cq and what followed it
    tx,        \* a Transaction with abstract wrappers, performing
    txLog,     \* the hooks that perform has run, in order
    dirtyComponents,    \* ReactUpdates: the dirty queue
    updateBatchNumber,  \* ReactUpdates: the flush generation counter
    asapCallbackQueue,  \* ReactUpdates: the queue of asap callbacks
    asapEnqueued,       \* ReactUpdates: an asap callback is waiting
    isBatchingUpdates,  \* batchingStrategy.isBatchingUpdates
    comp,      \* the nodes: _updateBatchNumber and _pendingCallbacks of each
    stack,     \* the call stack of the scheduler, innermost call last
    ret,       \* the result the innermost call has just handed to its caller
    outcome,   \* the result of the last call made from the top level, none
               \* while one is in progress
    budget,    \* what the environment may still do in this run
    updates,   \* the node-kind updates invoked since the current call from
               \* the top level began: <<node, generation>>, in order
    enqLog,    \* the calls of enqueueUpdate since then, in order
    cbLog,     \* the callbacks invoked by the scheduler's queues since then
    pooled,    \* the flush transactions taken from their pool since then and
               \* not released
    thrown,    \* the first error user code has thrown since then, and where
    injected,  \* ReactUpdates.injection: what has been injected
    rc,        \* a node driven through ReactReconciler inside a reconcile
               \* transaction: the node, the transaction's queue, the refs
    created    \* the calls of instantiateReactComponent made: the node given
               \* and the instance returned or the error thrown

cqVars == <<cq, cqRun, cqGhost, cqTampered, cqMark>>

txVars == <<tx, txLog>>

schedVars == <<dirtyComponents, updateBatchNumber, asapCallbackQueue, asapEnqueued,
               isBatchingUpdates, comp, stack, ret, outcome, budget, updates, enqLog, cbLog,
               pooled, thrown, injected>>

vars == <<cqVars, tx, txLog, schedVars, rc, created>>

\* what the operations of the CallbackQueue under test leave alone
notCQ == <<tx, txLog, schedVars, rc, created>>

\* what the operations of the abstract Transaction leave alone
notTx == <<cqVars, schedVars, rc, created>>

\* what the operations of the scheduler leave alone
notSched == <<cqVars, tx, txLog, rc, created>>

----------------------------------------------------------------------------
(* Bounds of the model.                                                    *)

\* the longest callback list a queue is driven to
MaxQLen == 2
\* the callbacks, contexts and shared arguments the environment chooses from
NumCallbacks == 2
NumContexts == 2
NumArgs == 1
\* how many pairs are enqueued after a checkpoint, to be rolled back
MaxSpeculative == 3
\* how many pairs the callbacks of one notifyAll enqueue
MaxReentrant == 2
\* the wrappers of the abstract Transaction
MaxWrappers == 2
\* the errors a hook or the wrapped method may throw
NumErrors == 2
\* the nodes
NumNodes == 3
\* the calls of enqueueUpdate in one run
MaxEnqueue == 4
\* the callbacks registered with nodes, with asap or as post-update hooks
MaxRegistered == 2
\* the errors user code throws in one run
MaxThrows == 1
\* the calls of batchedUpdates made from inside a batching scope
MaxNested == 1
\* the calls of asap in one run
MaxAsap == 1
\* the elements handed to one node: distinct objects, the refs they carry
\* (names and callbacks) and the owners that created them
NumElements == 2
NumRefNames == 1
NumRefCallbacks == 1
NumOwners == 2
\* the calls of ReactReconciler made inside one reconcile transaction
MaxCalls == 2
\* the calls of instantiateReactComponent in one run
MaxInstances == 2

Callbacks == 1..NumCallbacks
Contexts == 1..NumContexts
Args == 1..NumArgs
Errors == 1..NumErrors
Nodes == 1..NumNodes

----------------------------------------------------------------------------
(* JavaScript values.                                                      *)

\* the value of a hole left by `array.length = len` with len > length
Undefined == 0

\* a field that holds null or an array
Null == [isNull |-> TRUE, a |-> <<>>]
Arr(s) == [isNull |-> FALSE, a |-> s]

\* `x || []`
OrEmpty(x) == IF x.isNull THEN <<>> ELSE x.a

\* `array.length = len`: truncates, or extends with holes
SetLength(s, len) ==
    IF len <= Len(s)
    THEN SubSeq(s, 1, len)
    ELSE s \o [k \in 1..(len - Len(s)) |-> Undefined]

----------------------------------------------------------------------------
(* CallbackQueue                                                           *)

\* constructor(arg)
CallbackQueue(arg) == [callbacks |-> Null, contexts |-> Null, arg |-> arg]

\* enqueue(callback, context)
enqueue(q, callback, context) ==
    [q EXCEPT !.callbacks = Arr(Append(OrEmpty(q.callbacks), callback)),
              !.contexts = Arr(Append(OrEmpty(q.contexts), context))]

\* checkpoint()
checkpoint(q) == IF ~q.callbacks.isNull THEN Len(q.callbacks.a) ELSE 0

\* rollback(len) truncating the callbacks only
rollbackCallbacksOnly(q, len) ==
    IF ~q.callbacks.isNull /\ ~q.contexts.isNull
    THEN [q EXCEPT !.callbacks = Arr(SetLength(q.callbacks.a, len))]
    ELSE q

\* rollback(len)
rollback(q, len) ==
    IF ~q.callbacks.isNull /\ ~q.contexts.isNull
    THEN [q EXCEPT !.callbacks = Arr(SetLength(q.callbacks.a, len)),
                   !.contexts = Arr(SetLength(q.contexts.a, len))]
    ELSE q

\* reset()
reset(q) == [q EXCEPT !.callbacks = Null, !.contexts = Null]

\* notifyAll(): `if (callbacks && contexts)`
notifyAllEnters(q) == ~q.callbacks.isNull /\ ~q.contexts.isNull

\* notifyAll() without its check of the two lengths
notifyAllMismatchUnchecked(q) == FALSE

\* notifyAll(): the invariant on the two lengths
notifyAllMismatch(q) == Len(q.callbacks.a) # Len(q.contexts.a)

\* notifyAll() leaving its lists with the queue while the callbacks run
notifyAllKeepsLists(q) == q

\* notifyAll(): the queue is detached from its lists before any callback runs
notifyAllDetach(q) == [q EXCEPT !.callbacks = Null, !.contexts = Null]

\* notifyAll() walking its lists from the end
notifyAllCallLifo(callbacks, contexts, arg, i) ==
    <<callbacks[Len(callbacks) - i], contexts[Len(callbacks) - i], arg>>

\* notifyAll(): the i-th iteration, `callbacks[i].call(contexts[i], arg)`;
\* i counts from 0 as in the source
notifyAllCall(callbacks, contexts, arg, i) ==
    <<callbacks[i + 1], contexts[i + 1], arg>>

\* the loop of notifyAll goes on while `i < callbacks.length`
notifyAllMore(callbacks, i) == i < Len(callbacks)

----------------------------------------------------------------------------
(* Transaction: perform(method) brackets the method with the initialize    *)
(* and close hooks of an ordered list of wrappers.                         *)

\* no error was thrown
NoError == 0

\* perform(): the state of a perform call over n wrappers, before the first
\* initialize
TxnBegin(n) ==
    [phase |-> IF n = 0 THEN "method" ELSE "init",
     n |-> n,
     idx |-> 1,
     initOK |-> [k \in 1..n |-> FALSE],
     err |-> NoError]

\* the error thrown last replaces the ones before it
TxnLastError(t, e) == IF e # NoError THEN e ELSE t.err

\* the first error encountered is the one that is kept
TxnFirstError(t, e) == IF t.err # NoError THEN t.err ELSE e

\* the phase that closes the wrappers, from the first one
TxnToClose(t) ==
    [t EXCEPT !.phase = IF t.n = 0 THEN "done" ELSE "close", !.idx = 1]

\* initializeAll() going on to the next wrapper after an initialize threw
TxnInitializedGoesOn(t, e) ==
    LET u == [t EXCEPT !.err = TxnFirstError(t, e), !.initOK[t.idx] = (e = NoError)]
    IN IF t.idx < t.n THEN [u EXCEPT !.idx = @ + 1]
       ELSE IF u.err # NoError THEN TxnToClose(u)
       ELSE [u EXCEPT !.phase = "method"]

\* initializeAll(), one wrapper: its initialize returned (e = NoError) or
\* threw e; when it throws, no further wrapper initializes and the method is
\* not run
TxnInitialized(t, e) ==
    IF e # NoError
    THEN TxnToClose([t EXCEPT !.err = TxnFirstError(t, e)])
    ELSE IF t.idx = t.n
    THEN [t EXCEPT !.initOK[t.idx] = TRUE, !.phase = "method"]
    ELSE [t EXCEPT !.initOK[t.idx] = TRUE, !.idx = @ + 1]

\* perform() leaving at once when the wrapped method throws
TxnMethodEndedSkipsClose(t, e) ==
    IF e # NoError THEN [t EXCEPT !.err = e, !.phase = "done"] ELSE TxnToClose(t)

\* the wrapped method returned or threw e: the closes follow in both cases
TxnMethodEnded(t, e) ==
    TxnToClose([t EXCEPT !.err = TxnFirstError(t, e)])

\* closeAll(): only a wrapper that initialized successfully is closed
TxnCloseRuns(t) == t.initOK[t.idx]

\* closeAll(), one wrapper: its close returned, threw e, or was skipped; the
\* remaining wrappers are still closed
TxnClosed(t, e) ==
    IF t.idx = t.n
    THEN [t EXCEPT !.err = TxnFirstError(t, e), !.phase = "done"]
    ELSE [t EXCEPT !.err = TxnFirstError(t, e), !.idx = @ + 1]

\* perform() returns normally or rethrows the first error
TxnThrows(t) == t.err # NoError

----------------------------------------------------------------------------
(* ReactReconciler and ReactUpdates: the state and the pure steps.         *)

\* `_updateBatchNumber == null`
NullBatch == 0

\* _mountOrder: assigned at mount, distinct per node, and not the order in
\* which the model numbers the nodes
MountOrder(n) == IF n % 2 = 1 THEN n + 1 ELSE n - 1

\* getPublicInstance(): the externally visible instance of node n
PublicInstance(n) == n

\* a node as constructed: no tag, no pending callbacks
NewNode == [updateBatchNumber |-> NullBatch, pendingCallbacks |-> Null]

\* mountOrderComparator(c1, c2)
mountOrderComparator(c1, c2) == MountOrder(c1) - MountOrder(c2)

\* Array.prototype.sort(comparator): insertion of x into a sorted list
RECURSIVE SortInsert(_, _)
SortInsert(s, x) ==
    IF s = <<>> THEN <<x>>
    ELSE IF mountOrderComparator(s[Len(s)], x) > 0
    THEN Append(SortInsert(SubSeq(s, 1, Len(s) - 1), x), s[Len(s)])
    ELSE Append(s, x)

\* dirtyComponents.sort(mountOrderComparator)
RECURSIVE SortByMountOrder(_)
SortByMountOrder(s) ==
    IF s = <<>> THEN <<>>
    ELSE SortInsert(SortByMountOrder(SubSeq(s, 1, Len(s) - 1)), s[Len(s)])

\* Array.prototype.splice(0, count): what is left of the array
SpliceFront(s, count) ==
    IF count >= Len(s) THEN <<>> ELSE SubSeq(s, count + 1, Len(s))

\* enqueueUpdate adding a node only if dirtyComponents does not hold it
enqueueUpdatePushUnique(dc, n) ==
    IF \E i \in DOMAIN dc : dc[i] = n THEN dc ELSE Append(dc, n)

\* enqueueUpdate: `dirtyComponents.push(component)`
enqueueUpdatePush(dc, n) == Append(dc, n)

\* enqueueUpdate tagging the node for the generation in progress once a pass
\* has run
enqueueUpdateTagCurrent(tag, ubn) ==
    IF tag # NullBatch THEN tag ELSE IF ubn = 0 THEN ubn + 1 ELSE ubn

\* enqueueUpdate: `if (component._updateBatchNumber == null)` the node is
\* tagged updateBatchNumber + 1
enqueueUpdateTag(tag, ubn) == IF tag = NullBatch THEN ubn + 1 ELSE tag

\* ReactReconciler.performUpdateIfNecessary delegating whatever the tag is
performUpdateDelegatesAlways(tag, ubn) == TRUE

\* ReactReconciler.performUpdateIfNecessary taking the following generation
\* for the current one
performUpdateDelegatesNextToo(tag, ubn) == tag = ubn \/ tag = ubn + 1

\* ReactReconciler.performUpdateIfNecessary: the node-kind update is
\* delegated to only when the tag of the node is the generation given
performUpdateDelegates(tag, ubn) == tag = ubn

\* the node-kind performUpdateIfNecessary: the node is brought up to date
\* and its tag is unset
NodeKindUpdate(c) == [c EXCEPT !.updateBatchNumber = NullBatch]

\* NESTED_UPDATES.close draining again whatever the two lengths are
nestedUpdatesPendingAlways(len, dc) == TRUE

\* NESTED_UPDATES.close: updates were enqueued during the pass,
\* `this.dirtyComponentsLength !== dirtyComponents.length`
nestedUpdatesPending(len, dc) == len # Len(dc)

\* the wrappers of the flush transaction registered the other way round
TRANSACTION_WRAPPERS_REVERSED == <<"UPDATE_QUEUEING", "NESTED_UPDATES">>

\* the wrappers of the flush transaction, in registration order
TRANSACTION_WRAPPERS == <<"NESTED_UPDATES", "UPDATE_QUEUEING">>

\* the wrappers of the batching strategy's transaction
BATCH_WRAPPERS == <<"FLUSH_BATCHED_UPDATES", "RESET_BATCHED_UPDATES">>

\* the wrappers of the reconcile transaction that matter to the scheduler
RECONCILE_WRAPPERS == <<"ON_DOM_READY_QUEUEING">>

\* the value a call hands to its caller: none yet, a normal return
\* (NoError), or the error thrown
NoRet == [on |-> FALSE, err |-> NoError]
Ret(e) == [on |-> TRUE, err |-> e]

\* the result of a call made from the top level: the call, how it ended,
\* and for a call that opened a batching scope what the scope saw
NoOutcome ==
    [on |-> FALSE, err |-> NoError, call |-> "none", scope |-> FALSE, node |-> 0,
     gen |-> NullBatch, from |-> 0, drains |-> 0]

\* a fatal `invariant(...)` failure
InvariantViolation == MaxThrows + 1

\* the TypeError of reading a property of null
TypeError == MaxThrows + 2

\* what the environment does in one run: so many calls of enqueueUpdate, on
\* the first `nodes` nodes, so many callbacks registered with nodes or as
\* post-update hooks, errors thrown, nested calls of batchedUpdates, and
\* calls of asap
Budget(e, r, t, b, n, a) ==
    [enqueue |-> e, registered |-> r, throws |-> t, nested |-> b, nodes |-> n,
     asap |-> a]

\* the runs explored: cascades over all the nodes; callbacks and nested
\* scopes; errors followed by further updates and asap callbacks; a callback
\* and an error in a cascade
Budgets ==
    { Budget(MaxEnqueue - 1, 0, 0, 0, NumNodes, 0),
      Budget(MaxEnqueue - 2, MaxRegistered, 0, MaxNested, NumNodes - 1, MaxAsap),
      Budget(MaxEnqueue, 0, MaxThrows, 0, NumNodes - 1, MaxAsap),
      Budget(MaxEnqueue - 1, MaxRegistered - 1, MaxThrows, 0, NumNodes - 1, 0) }

\* no user code has thrown
NoThrow == [ctx |-> "none", err |-> NoError]

\* ReactUpdates as loaded: `batchingStrategy = null`,
\* `ReactReconcileTransaction: null`
NotInjected == [batchingStrategy |-> FALSE, ReactReconcileTransaction |-> FALSE]

\* the scheduler as the module leaves it when loaded, nothing called yet
SchedIdle ==
    /\ dirtyComponents = <<>>
    /\ updateBatchNumber = 0
    /\ asapCallbackQueue = CallbackQueue(Undefined)
    /\ asapEnqueued = FALSE
    /\ isBatchingUpdates = FALSE
    /\ comp = [n \in Nodes |-> NewNode]
    /\ stack = <<>>
    /\ ret = NoRet
    /\ outcome = NoOutcome
    /\ updates = <<>>
    /\ enqLog = <<>>
    /\ cbLog = <<>>
    /\ pooled = 0
    /\ thrown = NoThrow
    /\ injected = NotInjected

\* the scheduler with an environment that never calls it
SchedUnused == SchedIdle /\ budget = Budget(0, 0, 0, 0, 0, 0)

InitSched == SchedIdle /\ budget \in Budgets

----------------------------------------------------------------------------
(* The call stack.  The scheduler is synchronous and re-entrant: user code *)
(* (the function given to batchedUpdates, the update of a node, a          *)
(* callback) runs inside the scheduler and calls back into it.  Each call  *)
(* in progress is a frame; a frame that has called another waits below it  *)
(* and goes on when ret holds what the callee returned or threw.           *)

Top == stack[Len(stack)]
Pop == SubSeq(stack, 1, Len(stack) - 1)
SetTop(f) == [stack EXCEPT ![Len(stack)] = f]
TopIs(kind) == IF stack = <<>> THEN FALSE ELSE Top.kind = kind

\* user code: the function given to batchedUpdates ("fn"), the node-kind
\* update of a node ("update"), a callback of a queue ("callback", "asap",
\* "didUpdate")
UserFrame(ctx, node) == [kind |-> "user", ctx |-> ctx, node |-> node]

\* batchingStrategy.batchedUpdates outside a batching scope: the perform of
\* its transaction, both initialize hooks (empty functions) done; asaps is
\* the history of the callbacks asap has accepted inside the scope
BatchFrame(call, node, gen) ==
    [TxnInitialized(TxnInitialized(TxnBegin(Len(BATCH_WRAPPERS)), NoError), NoError)
        EXCEPT !.phase = "method"]
    @@ [kind |-> "batch", call |-> call, node |-> node, gen |-> gen,
        from |-> updateBatchNumber, drains |-> 0, asaps |-> <<>>]

\* one call of flushBatchedUpdates
FlushFrame == [kind |-> "flush", pc |-> "while"]

\* ReactUpdatesFlushTransaction.getPooled() and its perform
FlushTxnFrame ==
    TxnBegin(Len(TRANSACTION_WRAPPERS))
    @@ [kind |-> "flushTxn", dirtyComponentsLength |-> Undefined,
        callbackQueue |-> CallbackQueue(Undefined), log |-> <<>>,
        gen |-> NullBatch, popped |-> <<>>]

\* the perform of the reconcile transaction of a flush transaction
ReconcileFrame ==
    TxnBegin(Len(RECONCILE_WRAPPERS))
    @@ [kind |-> "reconcile", reactMountReady |-> CallbackQueue(Undefined)]

\* (of a flush transaction, gen is the generation of its pass and popped the
\* _pendingCallbacks its pass took from each node it went over, with whether
\* the tag of the node matched)

\* one call of runBatchedUpdates; queued is the dirty queue as the pass found
\* it, passLog the nodes given to ReactReconciler.performUpdateIfNecessary
RunFrame ==
    [kind |-> "run", pc |-> "start", len |-> 0, i |-> 0, callbacks |-> Null,
     component |-> 0, gen |-> NullBatch, queued |-> <<>>, passLog |-> <<>>]

\* one call of notifyAll on a queue of the scheduler
NotifyFrame(q, ctx) ==
    [kind |-> "notify", pc |-> "loop", callbacks |-> OrEmpty(q.callbacks),
     contexts |-> OrEmpty(q.contexts), arg |-> q.arg, i |-> 0, ctx |-> ctx]

\* the outermost frame of a kind, 0 when there is none
Outermost(kind) ==
    LET at == {k \in 1..Len(stack) : stack[k].kind = kind}
    IN IF at = {} THEN 0 ELSE CHOOSE k \in at : \A j \in at : k <= j

\* the innermost frame of a kind, 0 when there is none
Innermost(kind) ==
    LET at == {k \in 1..Len(stack) : stack[k].kind = kind}
    IN IF at = {} THEN 0 ELSE CHOOSE k \in at : \A j \in at : j <= k

----------------------------------------------------------------------------
(* User code and the entry points of ReactUpdates.                         *)

\* user code runs: at the top level, or in the innermost call
UserRuns == ~ret.on /\ (stack = <<>> \/ TopIs("user"))

\* the innermost call ends and hands e to its caller
Return(e) ==
    /\ stack' = Pop
    /\ ret' = Ret(e)

\* the context user code runs in
UserCtx == IF stack = <<>> THEN "top" ELSE Top.ctx

\* enqueueUpdate wrapping itself whatever the flag says
enqueueUpdateWrapsAlways(batching) == TRUE

\* enqueueUpdate: `if (!batchingStrategy.isBatchingUpdates)`
enqueueUpdateWraps(batching) == ~batching

\* batchingStrategy.batchedUpdates: `if (alreadyBatchingUpdates)`
alreadyBatchingUpdates(batching) == batching

\* ensureInjected(): both collaborators have been injected
ensureInjected(inj) == inj.ReactReconcileTransaction /\ inj.batchingStrategy

\* enqueueUpdate(component) called by user code, the nodes being c and the
\* budget u when it is called.  Outside a batching scope the call goes
\* through batchingStrategy.batchedUpdates(enqueueUpdate, component), whose
\* method, the second call of enqueueUpdate, has ended when this step ends.
\* The histories are those of the current call from the top level.
enqueueUpdate(n, c, u) ==
    LET tag == enqueueUpdateTag(c[n].updateBatchNumber, updateBatchNumber)
        entry == [node |-> n, at |-> Len(updates), ctx |-> UserCtx,
                  cbs |-> OrEmpty(c[n].pendingCallbacks), tag |-> tag,
                  was |-> c[n].updateBatchNumber, ubn |-> updateBatchNumber,
                  by |-> IF stack = <<>> THEN 0 ELSE Top.node,
                  cb |-> IF c[n].pendingCallbacks = comp[n].pendingCallbacks THEN 0
                         ELSE u.registered + 1]
    IN /\ ensureInjected(injected)
       /\ u.enqueue > 0
       /\ n <= u.nodes
       /\ budget' = [u EXCEPT !.enqueue = @ - 1]
       /\ dirtyComponents' = enqueueUpdatePush(dirtyComponents, n)
       /\ comp' = [c EXCEPT ![n].updateBatchNumber = tag]
       /\ IF enqueueUpdateWraps(isBatchingUpdates)
          THEN /\ isBatchingUpdates' = TRUE
               /\ updates' = <<>>
               /\ cbLog' = <<>>
               /\ pooled' = 0
               /\ thrown' = NoThrow
               /\ outcome' = NoOutcome
               /\ enqLog' = <<[entry EXCEPT !.at = 0]>>
               /\ stack' = Append(stack,
                      TxnMethodEnded(BatchFrame("enqueueUpdate", n, tag), NoError))
          ELSE /\ enqLog' = Append(enqLog, entry)
               /\ UNCHANGED <<isBatchingUpdates, stack, updates, cbLog, pooled, thrown,
                              outcome>>

\* ReactUpdates.enqueueUpdate(component)
EnqueueUpdate(n) ==
    /\ UserRuns
    /\ enqueueUpdate(n, comp, budget)
    /\ UNCHANGED <<updateBatchNumber, asapCallbackQueue, asapEnqueued, ret, injected,
                   notSched>>

\* the update queue's enqueueCallback(publicInstance, callback): the callback
\* joins the _pendingCallbacks of the node, then enqueueUpdate(node)
EnqueueCallback(n) ==
    /\ UserRuns
    /\ budget.registered > 0
    /\ enqueueUpdate(n,
           [comp EXCEPT ![n].pendingCallbacks =
               Arr(Append(OrEmpty(@), budget.registered))],
           [budget EXCEPT !.registered = @ - 1])
    /\ UNCHANGED <<updateBatchNumber, asapCallbackQueue, asapEnqueued, ret, injected,
                   notSched>>

\* ReactUpdates.batchedUpdates(callback), or, when direct, the host calling
\* batchingStrategy.batchedUpdates(callback) itself: outside a batching scope
\* the strategy sets the flag and performs callback in its transaction;
\* inside one it only calls callback
BatchedUpdates(direct) ==
    /\ UserRuns
    /\ IF direct THEN injected.batchingStrategy ELSE ensureInjected(injected)
    /\ IF alreadyBatchingUpdates(isBatchingUpdates)
       THEN /\ budget.nested > 0
            /\ budget' = [budget EXCEPT !.nested = @ - 1]
            /\ stack' = Append(stack, UserFrame("fn", 0))
            /\ UNCHANGED <<isBatchingUpdates, updates, enqLog, cbLog, pooled, thrown,
                           outcome>>
       ELSE /\ isBatchingUpdates' = TRUE
            /\ stack' = stack \o <<BatchFrame("batchedUpdates", 0, NullBatch),
                                   UserFrame("fn", 0)>>
            /\ updates' = <<>>
            /\ enqLog' = <<>>
            /\ cbLog' = <<>>
            /\ pooled' = 0
            /\ thrown' = NoThrow
            /\ outcome' = NoOutcome
            /\ UNCHANGED budget
    /\ UNCHANGED <<dirtyComponents, updateBatchNumber, asapCallbackQueue, asapEnqueued,
                   comp, ret, injected, notSched>>

\* _renderNewRootComponent mounting the root without batchedUpdates
renderOpensScopeNever(batching) == FALSE

\* _renderNewRootComponent: ReactUpdates.batchedUpdates(
\* batchedMountComponentIntoNode, ...) opens a batching scope unless one is
\* open
renderOpensScope(batching) == ~alreadyBatchingUpdates(batching)

\* ReactMount._renderNewRootComponent(nextElement, container, ...) with a
\* valid container: batchedMountComponentIntoNode is given to
\* ReactUpdates.batchedUpdates.  The user code of the mount
\* (componentWillMount and render inside mountComponentIntoNode,
\* componentDidMount in the close of the reconcile transaction of the mount)
\* runs in the frame "mount".
RenderNewRootComponent ==
    /\ UserRuns
    /\ ensureInjected(injected)
    /\ budget.nested > 0
    /\ budget' = [budget EXCEPT !.nested = @ - 1]
    /\ IF renderOpensScope(isBatchingUpdates)
       THEN /\ isBatchingUpdates' = TRUE
            /\ stack' = stack \o <<BatchFrame("render", 0, NullBatch),
                                   UserFrame("mount", 0)>>
            /\ updates' = <<>>
            /\ enqLog' = <<>>
            /\ cbLog' = <<>>
            /\ pooled' = 0
            /\ thrown' = NoThrow
            /\ outcome' = NoOutcome
       ELSE /\ stack' = Append(stack, UserFrame("mount", 0))
            /\ UNCHANGED <<isBatchingUpdates, updates, enqLog, cbLog, pooled, thrown,
                           outcome>>
    /\ UNCHANGED <<dirtyComponents, updateBatchNumber, asapCallbackQueue, asapEnqueued,
                   comp, ret, injected, notSched>>

\* the a-th callback given to asap, a name no other callback has
AsapCallback(a) == MaxRegistered + a

\* asap enqueueing whatever the flag of the strategy says
asapAcceptsAlways(inj, batching) == TRUE

\* asap: `invariant(batchingStrategy.isBatchingUpdates, ...)`, which reads
\* the flag of the strategy without ensureInjected()
asapAccepts(inj, batching) == inj.batchingStrategy /\ batching

\* ReactUpdates.asap(callback, context) inside a batching scope
Asap ==
    /\ UserRuns
    /\ asapAccepts(injected, isBatchingUpdates)
    /\ budget.asap > 0
    /\ budget' = [budget EXCEPT !.asap = @ - 1]
    /\ asapCallbackQueue' = enqueue(asapCallbackQueue, AsapCallback(budget.asap), Undefined)
    /\ asapEnqueued' = TRUE
    /\ stack' = [stack EXCEPT ![Outermost("batch")].asaps =
                                 Append(@, AsapCallback(budget.asap))]
    /\ UNCHANGED <<dirtyComponents, updateBatchNumber, isBatchingUpdates, comp, ret,
                   outcome, updates, enqLog, cbLog, pooled, thrown, injected, notSched>>

\* ReactUpdates.asap(callback, context) outside a batching scope: the
\* invariant fails; without a strategy the read of its flag fails
AsapOutsideBatch ==
    /\ UserRuns
    /\ ~asapAccepts(injected, isBatchingUpdates)
    /\ outcome' = [NoOutcome EXCEPT
                      !.on = TRUE, !.call = "asap",
                      !.err = IF injected.batchingStrategy THEN InvariantViolation
                              ELSE TypeError]
    /\ UNCHANGED <<dirtyComponents, updateBatchNumber, asapCallbackQueue, asapEnqueued,
                   isBatchingUpdates, comp, stack, ret, budget, updates, enqLog, cbLog,
                   pooled, thrown, injected, notSched>>

\* ReactUpdates.injection.injectBatchingStrategy(strategy), the strategy not
\* batching when it is injected
InjectBatchingStrategy ==
    /\ stack = <<>>
    /\ ~injected.batchingStrategy
    /\ injected' = [injected EXCEPT !.batchingStrategy = TRUE]
    /\ UNCHANGED <<dirtyComponents, updateBatchNumber, asapCallbackQueue, asapEnqueued,
                   isBatchingUpdates, comp, stack, ret, outcome, budget, updates, enqLog,
                   cbLog, pooled, thrown, notSched>>

\* ReactUpdates.injection.injectReconcileTransaction(ReconcileTransaction)
InjectReconcileTransaction ==
    /\ stack = <<>>
    /\ ~injected.ReactReconcileTransaction
    /\ injected' = [injected EXCEPT !.ReactReconcileTransaction = TRUE]
    /\ UNCHANGED <<dirtyComponents, updateBatchNumber, asapCallbackQueue, asapEnqueued,
                   isBatchingUpdates, comp, stack, ret, outcome, budget, updates, enqLog,
                   cbLog, pooled, thrown, notSched>>

\* enqueueUpdate or ReactUpdates.batchedUpdates called before both
\* collaborators are injected: ensureInjected() fails, and the error goes to
\* the caller
EnsureInjectedFails(call) ==
    /\ UserRuns
    /\ ~ensureInjected(injected)
    /\ IF stack = <<>>
       THEN /\ outcome' = [NoOutcome EXCEPT !.on = TRUE, !.err = InvariantViolation,
                                            !.call = call]
            /\ UNCHANGED <<stack, ret>>
       ELSE /\ Return(InvariantViolation)
            /\ UNCHANGED outcome
    /\ UNCHANGED <<dirtyComponents, updateBatchNumber, asapCallbackQueue, asapEnqueued,
                   isBatchingUpdates, comp, budget, updates, enqLog, cbLog, pooled, thrown,
                   injected, notSched>>

\* the update of a node registers a post-update callback (componentDidUpdate)
\* with the reconcile transaction: transaction.getReactMountReady().enqueue
EnqueueDidUpdate ==
    /\ UserRuns
    /\ TopIs("user")
    /\ Top.ctx = "update"
    /\ budget.registered > 0
    /\ budget' = [budget EXCEPT !.registered = @ - 1]
    /\ stack' = [stack EXCEPT ![Innermost("reconcile")].reactMountReady =
                     enqueue(@, budget.registered, Top.node)]
    /\ UNCHANGED <<dirtyComponents, updateBatchNumber, asapCallbackQueue, asapEnqueued,
                   isBatchingUpdates, comp, ret, outcome, updates, enqLog, cbLog,
                   pooled, thrown, injected, notSched>>

\* user code returns
UserReturns ==
    /\ UserRuns
    /\ TopIs("user")
    /\ Return(NoError)
    /\ UNCHANGED <<dirtyComponents, updateBatchNumber, asapCallbackQueue, asapEnqueued,
                   isBatchingUpdates, comp, outcome, budget, updates, enqLog, cbLog,
                   pooled, thrown, injected, notSched>>

\* user code throws
UserThrows ==
    /\ UserRuns
    /\ TopIs("user")
    /\ budget.throws > 0
    /\ budget' = [budget EXCEPT !.throws = @ - 1]
    /\ Return(budget.throws)
    /\ thrown' = IF thrown.err = NoError
                 THEN [ctx |-> Top.ctx, err |-> budget.throws]
                 ELSE thrown
    /\ UNCHANGED <<dirtyComponents, updateBatchNumber, asapCallbackQueue, asapEnqueued,
                   isBatchingUpdates, comp, outcome, updates, enqLog, cbLog, pooled,
                   injected, notSched>>

\* a call made by user code has ended: user code goes on after a return and
\* lets an error pass to its own caller
UserResumes ==
    /\ TopIs("user")
    /\ ret.on
    /\ IF ret.err = NoError
       THEN ret' = NoRet /\ UNCHANGED stack
       ELSE Return(ret.err)
    /\ UNCHANGED <<dirtyComponents, updateBatchNumber, asapCallbackQueue, asapEnqueued,
                   isBatchingUpdates, comp, outcome, budget, updates, enqLog, cbLog,
                   pooled, thrown, injected, notSched>>

----------------------------------------------------------------------------
(* The batching strategy: a transaction whose first wrapper drains on      *)
(* close and whose second wrapper resets the flag on close.                *)

\* the callback given to batchedUpdates has returned or thrown
BatchMethodEnds ==
    /\ TopIs("batch")
    /\ ret.on
    /\ Top.phase = "method"
    /\ stack' = SetTop(TxnMethodEnded(Top, ret.err))
    /\ ret' = NoRet
    /\ UNCHANGED <<dirtyComponents, updateBatchNumber, asapCallbackQueue, asapEnqueued,
                   isBatchingUpdates, comp, outcome, budget, updates, enqLog, cbLog,
                   pooled, thrown, injected, notSched>>

\* FLUSH_BATCHED_UPDATES.close: flushBatchedUpdates()
FlushBatchedUpdatesClose ==
    /\ TopIs("batch")
    /\ ~ret.on
    /\ Top.phase = "close"
    /\ BATCH_WRAPPERS[Top.idx] = "FLUSH_BATCHED_UPDATES"
    /\ TxnCloseRuns(Top)
    /\ stack' = Append(SetTop([Top EXCEPT !.drains = @ + 1]), FlushFrame)
    /\ UNCHANGED <<dirtyComponents, updateBatchNumber, asapCallbackQueue, asapEnqueued,
                   isBatchingUpdates, comp, ret, outcome, budget, updates, enqLog,
                   cbLog, pooled, thrown, injected, notSched>>

\* flushBatchedUpdates() has returned to FLUSH_BATCHED_UPDATES.close, or thrown
FlushBatchedUpdatesCloseEnds ==
    /\ TopIs("batch")
    /\ ret.on
    /\ Top.phase = "close"
    /\ BATCH_WRAPPERS[Top.idx] = "FLUSH_BATCHED_UPDATES"
    /\ stack' = SetTop(TxnClosed(Top, ret.err))
    /\ ret' = NoRet
    /\ UNCHANGED <<dirtyComponents, updateBatchNumber, asapCallbackQueue, asapEnqueued,
                   isBatchingUpdates, comp, outcome, budget, updates, enqLog, cbLog,
                   pooled, thrown, injected, notSched>>

\* RESET_BATCHED_UPDATES.close: isBatchingUpdates = false; then perform
\* returns to the caller of batchedUpdates, or rethrows
ResetBatchedUpdatesClose ==
    /\ TopIs("batch")
    /\ ~ret.on
    /\ Top.phase = "close"
    /\ BATCH_WRAPPERS[Top.idx] = "RESET_BATCHED_UPDATES"
    /\ TxnCloseRuns(Top)
    /\ isBatchingUpdates' = FALSE
    /\ stack' = Pop
    /\ LET t == TxnClosed(Top, NoError)
       IN IF Len(stack) = 1
          THEN /\ outcome' = [on |-> TRUE, err |-> t.err, call |-> t.call,
                              scope |-> TRUE, node |-> t.node, gen |-> t.gen,
                              from |-> t.from, drains |-> t.drains]
               /\ ret' = NoRet
          ELSE /\ ret' = Ret(t.err)
               /\ UNCHANGED outcome
    /\ UNCHANGED <<dirtyComponents, updateBatchNumber, asapCallbackQueue, asapEnqueued,
                   comp, budget, updates, enqLog, cbLog, pooled, thrown, injected,
                   notSched>>

----------------------------------------------------------------------------
(* flushBatchedUpdates and the flush transaction.                          *)

\* the frame f put on top of the stack st in place of its innermost frame
With(st, f) == [st EXCEPT ![Len(st)] = f]

\* the event ev added to the log of the innermost flush transaction
Logged(ev) == [stack EXCEPT ![Innermost("flushTxn")].log = Append(@, ev)]

\* flushBatchedUpdates with a loop that never ends: `while (true)`
flushBatchedUpdatesGoesOnForever(dc, asap) == TRUE

\* flushBatchedUpdates going on while nodes are dirty only
flushBatchedUpdatesGoesOnWhileDirty(dc, asap) == Len(dc) > 0

\* `while (dirtyComponents.length || asapEnqueued)`
flushBatchedUpdatesGoesOn(dc, asap) == Len(dc) > 0 \/ asap

\* the while test fails: flushBatchedUpdates returns
FlushBatchedUpdatesReturns ==
    /\ TopIs("flush")
    /\ ~ret.on
    /\ Top.pc = "while"
    /\ ~flushBatchedUpdatesGoesOn(dirtyComponents, asapEnqueued)
    /\ Return(NoError)
    /\ UNCHANGED <<dirtyComponents, updateBatchNumber, asapCallbackQueue, asapEnqueued,
                   isBatchingUpdates, comp, outcome, budget, updates, enqLog, cbLog,
                   pooled, thrown, injected, notSched>>

\* `if (dirtyComponents.length)`: a flush transaction is taken from the pool
\* and performs runBatchedUpdates; otherwise on to the asap test
FlushBatchedUpdatesPerform ==
    /\ TopIs("flush")
    /\ ~ret.on
    /\ Top.pc = "while"
    /\ flushBatchedUpdatesGoesOn(dirtyComponents, asapEnqueued)
    /\ IF Len(dirtyComponents) > 0
       THEN /\ stack' = Append(SetTop([Top EXCEPT !.pc = "perform"]), FlushTxnFrame)
            /\ pooled' = pooled + 1
       ELSE /\ stack' = SetTop([Top EXCEPT !.pc = "asap"])
            /\ UNCHANGED pooled
    /\ UNCHANGED <<dirtyComponents, updateBatchNumber, asapCallbackQueue, asapEnqueued,
                   isBatchingUpdates, comp, ret, outcome, budget, updates, enqLog,
                   cbLog, thrown, injected, notSched>>

\* `ReactUpdatesFlushTransaction.release(transaction)`
flushTransactionRelease(n) == n - 1

\* transaction.perform has returned, and the transaction is released, or it
\* has thrown, and the error leaves flushBatchedUpdates
FlushBatchedUpdatesPerformed ==
    /\ TopIs("flush")
    /\ ret.on
    /\ Top.pc = "perform"
    /\ IF ret.err = NoError
       THEN /\ stack' = SetTop([Top EXCEPT !.pc = "asap"])
            /\ ret' = NoRet
            /\ pooled' = flushTransactionRelease(pooled)
       ELSE /\ Return(ret.err)
            /\ UNCHANGED pooled
    /\ UNCHANGED <<dirtyComponents, updateBatchNumber, asapCallbackQueue, asapEnqueued,
                   isBatchingUpdates, comp, outcome, budget, updates, enqLog, cbLog,
                   thrown, injected, notSched>>

\* `if (asapEnqueued)`: the asap queue is replaced by a new one and notified
FlushBatchedUpdatesAsap ==
    /\ TopIs("flush")
    /\ ~ret.on
    /\ Top.pc = "asap"
    /\ IF asapEnqueued
       THEN /\ asapEnqueued' = FALSE
            /\ asapCallbackQueue' = CallbackQueue(Undefined)
            /\ stack' = Append(SetTop([Top EXCEPT !.pc = "notify"]),
                               NotifyFrame(asapCallbackQueue, "asap"))
       ELSE /\ stack' = SetTop([Top EXCEPT !.pc = "while"])
            /\ UNCHANGED <<asapEnqueued, asapCallbackQueue>>
    /\ UNCHANGED <<dirtyComponents, updateBatchNumber, isBatchingUpdates, comp, ret,
                   outcome, budget, updates, enqLog, cbLog, pooled, thrown, injected,
                   notSched>>

\* queue.notifyAll() has returned, and the queue is released, or it has thrown
FlushBatchedUpdatesNotified ==
    /\ TopIs("flush")
    /\ ret.on
    /\ Top.pc = "notify"
    /\ IF ret.err = NoError
       THEN stack' = SetTop([Top EXCEPT !.pc = "while"]) /\ ret' = NoRet
       ELSE Return(ret.err)
    /\ UNCHANGED <<dirtyComponents, updateBatchNumber, asapCallbackQueue, asapEnqueued,
                   isBatchingUpdates, comp, outcome, budget, updates, enqLog, cbLog,
                   pooled, thrown, injected, notSched>>

\* NESTED_UPDATES.initialize recording the length of an empty queue
nestedUpdatesInitializeEmpty(dc) == Len(<<>>)

\* NESTED_UPDATES.initialize:
\* `this.dirtyComponentsLength = dirtyComponents.length`
nestedUpdatesInitialize(dc) == Len(dc)

\* the wrapper of the flush transaction whose hook is next
FlushWrapper(f) == TRANSACTION_WRAPPERS[f.idx]

\* NESTED_UPDATES.initialize
NestedUpdatesInitialize ==
    /\ TopIs("flushTxn")
    /\ Top.phase = "init"
    /\ FlushWrapper(Top) = "NESTED_UPDATES"
    /\ stack' = SetTop(TxnInitialized(
                    [Top EXCEPT !.dirtyComponentsLength =
                                    nestedUpdatesInitialize(dirtyComponents),
                                !.log = Append(@, "NESTED_UPDATES.initialize")],
                    NoError))
    /\ UNCHANGED <<dirtyComponents, updateBatchNumber, asapCallbackQueue, asapEnqueued,
                   isBatchingUpdates, comp, ret, outcome, budget, updates, enqLog,
                   cbLog, pooled, thrown, injected, notSched>>

\* UPDATE_QUEUEING.initialize
UpdateQueueingInitialize ==
    /\ TopIs("flushTxn")
    /\ Top.phase = "init"
    /\ FlushWrapper(Top) = "UPDATE_QUEUEING"
    /\ stack' = SetTop(TxnInitialized(
                    [Top EXCEPT !.callbackQueue = reset(@),
                                !.log = Append(@, "UPDATE_QUEUEING.initialize")],
                    NoError))
    /\ UNCHANGED <<dirtyComponents, updateBatchNumber, asapCallbackQueue, asapEnqueued,
                   isBatchingUpdates, comp, ret, outcome, budget, updates, enqLog,
                   cbLog, pooled, thrown, injected, notSched>>

\* the method of the flush transaction: reconcileTransaction.perform(
\* runBatchedUpdates, null, transaction)
FlushTransactionMethod ==
    /\ TopIs("flushTxn")
    /\ ~ret.on
    /\ Top.phase = "method"
    /\ stack' = Append(stack, ReconcileFrame)
    /\ UNCHANGED <<dirtyComponents, updateBatchNumber, asapCallbackQueue, asapEnqueued,
                   isBatchingUpdates, comp, ret, outcome, budget, updates, enqLog,
                   cbLog, pooled, thrown, injected, notSched>>

\* reconcileTransaction.perform has returned or thrown
FlushTransactionMethodEnds ==
    /\ TopIs("flushTxn")
    /\ ret.on
    /\ Top.phase = "method"
    /\ stack' = SetTop(TxnMethodEnded(Top, ret.err))
    /\ ret' = NoRet
    /\ UNCHANGED <<dirtyComponents, updateBatchNumber, asapCallbackQueue, asapEnqueued,
                   isBatchingUpdates, comp, outcome, budget, updates, enqLog, cbLog,
                   pooled, thrown, injected, notSched>>

\* NESTED_UPDATES.close
NestedUpdatesClose ==
    /\ TopIs("flushTxn")
    /\ ~ret.on
    /\ Top.phase = "close"
    /\ FlushWrapper(Top) = "NESTED_UPDATES"
    /\ TxnCloseRuns(Top)
    /\ LET f == [Top EXCEPT !.log = Append(@, "NESTED_UPDATES.close")]
       IN IF nestedUpdatesPending(Top.dirtyComponentsLength, dirtyComponents)
          THEN /\ dirtyComponents' = SpliceFront(dirtyComponents, Top.dirtyComponentsLength)
               /\ stack' = Append(SetTop(f), FlushFrame)
          ELSE /\ dirtyComponents' = <<>>
               /\ stack' = SetTop(TxnClosed(f, NoError))
    /\ UNCHANGED <<updateBatchNumber, asapCallbackQueue, asapEnqueued,
                   isBatchingUpdates, comp, ret, outcome, budget, updates, enqLog,
                   cbLog, pooled, thrown, injected, notSched>>

\* the flushBatchedUpdates() of NESTED_UPDATES.close has returned or thrown
NestedUpdatesCloseEnds ==
    /\ TopIs("flushTxn")
    /\ ret.on
    /\ Top.phase = "close"
    /\ FlushWrapper(Top) = "NESTED_UPDATES"
    /\ stack' = SetTop(TxnClosed(Top, ret.err))
    /\ ret' = NoRet
    /\ UNCHANGED <<dirtyComponents, updateBatchNumber, asapCallbackQueue, asapEnqueued,
                   isBatchingUpdates, comp, outcome, budget, updates, enqLog, cbLog,
                   pooled, thrown, injected, notSched>>

\* UPDATE_QUEUEING.close: this.callbackQueue.notifyAll()
UpdateQueueingClose ==
    /\ TopIs("flushTxn")
    /\ ~ret.on
    /\ Top.phase = "close"
    /\ FlushWrapper(Top) = "UPDATE_QUEUEING"
    /\ TxnCloseRuns(Top)
    /\ stack' = Append(SetTop([Top EXCEPT !.callbackQueue = notifyAllDetach(@),
                                          !.log = Append(@, "UPDATE_QUEUEING.close")]),
                       NotifyFrame(Top.callbackQueue, "callback"))
    /\ UNCHANGED <<dirtyComponents, updateBatchNumber, asapCallbackQueue, asapEnqueued,
                   isBatchingUpdates, comp, ret, outcome, budget, updates, enqLog,
                   cbLog, pooled, thrown, injected, notSched>>

\* the notifyAll() of UPDATE_QUEUEING.close has returned or thrown
UpdateQueueingCloseEnds ==
    /\ TopIs("flushTxn")
    /\ ret.on
    /\ Top.phase = "close"
    /\ FlushWrapper(Top) = "UPDATE_QUEUEING"
    /\ stack' = SetTop(TxnClosed(Top, ret.err))
    /\ ret' = NoRet
    /\ UNCHANGED <<dirtyComponents, updateBatchNumber, asapCallbackQueue, asapEnqueued,
                   isBatchingUpdates, comp, outcome, budget, updates, enqLog, cbLog,
                   pooled, thrown, injected, notSched>>

\* the perform of the flush transaction returns to flushBatchedUpdates, or
\* rethrows
FlushTransactionReturns ==
    /\ TopIs("flushTxn")
    /\ Top.phase = "done"
    /\ Return(Top.err)
    /\ UNCHANGED <<dirtyComponents, updateBatchNumber, asapCallbackQueue, asapEnqueued,
                   isBatchingUpdates, comp, outcome, budget, updates, enqLog, cbLog,
                   pooled, thrown, injected, notSched>>

----------------------------------------------------------------------------
(* The reconcile transaction, runBatchedUpdates and the notifyAll of the   *)
(* queues of the scheduler.                                                *)

\* ON_DOM_READY_QUEUEING.initialize: this.reactMountReady.reset()
OnDomReadyInitialize ==
    /\ TopIs("reconcile")
    /\ Top.phase = "init"
    /\ stack' = With(Logged("reconcile.initialize"),
                     TxnInitialized([Top EXCEPT !.reactMountReady = reset(@)], NoError))
    /\ UNCHANGED <<dirtyComponents, updateBatchNumber, asapCallbackQueue, asapEnqueued,
                   isBatchingUpdates, comp, ret, outcome, budget, updates, enqLog,
                   cbLog, pooled, thrown, injected, notSched>>

\* the method of the reconcile transaction: runBatchedUpdates(transaction)
ReconcileTransactionMethod ==
    /\ TopIs("reconcile")
    /\ ~ret.on
    /\ Top.phase = "method"
    /\ stack' = Append(stack, RunFrame)
    /\ UNCHANGED <<dirtyComponents, updateBatchNumber, asapCallbackQueue, asapEnqueued,
                   isBatchingUpdates, comp, ret, outcome, budget, updates, enqLog,
                   cbLog, pooled, thrown, injected, notSched>>

\* runBatchedUpdates has returned or thrown
ReconcileTransactionMethodEnds ==
    /\ TopIs("reconcile")
    /\ ret.on
    /\ Top.phase = "method"
    /\ stack' = SetTop(TxnMethodEnded(Top, ret.err))
    /\ ret' = NoRet
    /\ UNCHANGED <<dirtyComponents, updateBatchNumber, asapCallbackQueue, asapEnqueued,
                   isBatchingUpdates, comp, outcome, budget, updates, enqLog, cbLog,
                   pooled, thrown, injected, notSched>>

\* ON_DOM_READY_QUEUEING.close: this.reactMountReady.notifyAll()
OnDomReadyClose ==
    /\ TopIs("reconcile")
    /\ ~ret.on
    /\ Top.phase = "close"
    /\ TxnCloseRuns(Top)
    /\ stack' = Append(With(Logged("reconcile.close"),
                            [Top EXCEPT !.reactMountReady = notifyAllDetach(@)]),
                       NotifyFrame(Top.reactMountReady, "didUpdate"))
    /\ UNCHANGED <<dirtyComponents, updateBatchNumber, asapCallbackQueue, asapEnqueued,
                   isBatchingUpdates, comp, ret, outcome, budget, updates, enqLog,
                   cbLog, pooled, thrown, injected, notSched>>

\* the notifyAll() of ON_DOM_READY_QUEUEING.close has returned or thrown
OnDomReadyCloseEnds ==
    /\ TopIs("reconcile")
    /\ ret.on
    /\ Top.phase = "close"
    /\ stack' = SetTop(TxnClosed(Top, ret.err))
    /\ ret' = NoRet
    /\ UNCHANGED <<dirtyComponents, updateBatchNumber, asapCallbackQueue, asapEnqueued,
                   isBatchingUpdates, comp, outcome, budget, updates, enqLog, cbLog,
                   pooled, thrown, injected, notSched>>

\* the perform of the reconcile transaction returns, or rethrows
ReconcileTransactionReturns ==
    /\ TopIs("reconcile")
    /\ Top.phase = "done"
    /\ Return(Top.err)
    /\ UNCHANGED <<dirtyComponents, updateBatchNumber, asapCallbackQueue, asapEnqueued,
                   isBatchingUpdates, comp, outcome, budget, updates, enqLog, cbLog,
                   pooled, thrown, injected, notSched>>

\* runBatchedUpdates: the check of the recorded length
runBatchedUpdatesLengthOK(len, dc) == len = Len(dc)

\* runBatchedUpdates leaving the queue in the order of insertion
runBatchedUpdatesUnsorted(dc) == dc

\* runBatchedUpdates: `dirtyComponents.sort(mountOrderComparator)`
runBatchedUpdatesSort(dc) == SortByMountOrder(dc)

\* runBatchedUpdates up to its loop: the length check, the sort, the
\* increment of the generation counter
RunBatchedUpdatesStarts ==
    /\ TopIs("run")
    /\ Top.pc = "start"
    /\ LET len == stack[Innermost("flushTxn")].dirtyComponentsLength
       IN IF runBatchedUpdatesLengthOK(len, dirtyComponents)
          THEN /\ dirtyComponents' = runBatchedUpdatesSort(dirtyComponents)
               /\ updateBatchNumber' = updateBatchNumber + 1
               /\ stack' = With([Logged("runBatchedUpdates") EXCEPT
                                     ![Innermost("flushTxn")].gen =
                                         updateBatchNumber + 1],
                                [Top EXCEPT !.pc = "loop", !.len = len,
                                            !.gen = updateBatchNumber + 1,
                                            !.queued = dirtyComponents])
               /\ UNCHANGED ret
          ELSE /\ Return(InvariantViolation)
               /\ UNCHANGED <<dirtyComponents, updateBatchNumber>>
    /\ UNCHANGED <<asapCallbackQueue, asapEnqueued, isBatchingUpdates, comp, outcome,
                   budget, updates, enqLog, cbLog, pooled, thrown, injected, notSched>>

\* the callbacks stashed for a node put into the queue of the transaction,
\* each with the public instance of the node
RECURSIVE EnqueueAll(_, _, _)
EnqueueAll(q, callbacks, instance) ==
    IF callbacks = <<>> THEN q
    ELSE EnqueueAll(enqueue(q, Head(callbacks), instance), Tail(callbacks), instance)

\* the end of one iteration of the loop: `if (callbacks)` they go to
\* transaction.callbackQueue; then i++
RunIterationEnds(st, f) ==
    With([st EXCEPT ![Innermost("flushTxn")].callbackQueue =
              IF f.callbacks.isNull THEN @
              ELSE EnqueueAll(@, f.callbacks.a, PublicInstance(f.component))],
         [f EXCEPT !.i = @ + 1, !.pc = "loop", !.callbacks = Null])

\* the pass has taken the _pendingCallbacks of a node
Popped(component, matched) ==
    [stack EXCEPT ![Innermost("flushTxn")].popped =
        Append(@, [node |-> component,
                   cbs |-> OrEmpty(comp[component].pendingCallbacks),
                   matched |-> matched])]

\* one iteration of the loop of runBatchedUpdates, up to the call of the
\* node-kind update when ReactReconciler.performUpdateIfNecessary delegates
\* to it, and to the end of the iteration when it does not.  The node-kind
\* update unsets _updateBatchNumber before the user code of the node runs.
RunBatchedUpdatesIterates ==
    /\ TopIs("run")
    /\ ~ret.on
    /\ Top.pc = "loop"
    /\ Top.i < Top.len
    /\ LET component == dirtyComponents[Top.i + 1]
           f == [Top EXCEPT !.component = component,
                            !.callbacks = comp[component].pendingCallbacks,
                            !.passLog = Append(@, component)]
       IN IF performUpdateDelegates(comp[component].updateBatchNumber, updateBatchNumber)
          THEN /\ comp' = [comp EXCEPT ![component] =
                                NodeKindUpdate([@ EXCEPT !.pendingCallbacks = Null])]
               /\ updates' = Append(updates, <<component, updateBatchNumber>>)
               /\ stack' = Append(With(Popped(component, TRUE),
                                       [f EXCEPT !.pc = "update"]),
                                  UserFrame("update", component))
          ELSE /\ comp' = [comp EXCEPT ![component].pendingCallbacks = Null]
               /\ stack' = RunIterationEnds(Popped(component, FALSE), f)
               /\ UNCHANGED updates
    /\ UNCHANGED <<dirtyComponents, updateBatchNumber, asapCallbackQueue, asapEnqueued,
                   isBatchingUpdates, ret, outcome, budget, enqLog, cbLog, pooled,
                   thrown, injected, notSched>>

\* the update of the node has returned, and the iteration ends, or it has
\* thrown, and the error leaves runBatchedUpdates
RunBatchedUpdatesUpdated ==
    /\ TopIs("run")
    /\ ret.on
    /\ Top.pc = "update"
    /\ IF ret.err = NoError
       THEN stack' = RunIterationEnds(stack, Top) /\ ret' = NoRet
       ELSE Return(ret.err)
    /\ UNCHANGED <<dirtyComponents, updateBatchNumber, asapCallbackQueue, asapEnqueued,
                   isBatchingUpdates, comp, outcome, budget, updates, enqLog, cbLog,
                   pooled, thrown, injected, notSched>>

\* `i < len` fails: runBatchedUpdates returns
RunBatchedUpdatesReturns ==
    /\ TopIs("run")
    /\ ~ret.on
    /\ Top.pc = "loop"
    /\ ~(Top.i < Top.len)
    /\ Return(NoError)
    /\ UNCHANGED <<dirtyComponents, updateBatchNumber, asapCallbackQueue, asapEnqueued,
                   isBatchingUpdates, comp, outcome, budget, updates, enqLog, cbLog,
                   pooled, thrown, injected, notSched>>

\* notifyAll(): the next callback is called
NotifyAllCalls ==
    /\ TopIs("notify")
    /\ ~ret.on
    /\ Top.pc = "loop"
    /\ notifyAllMore(Top.callbacks, Top.i)
    /\ LET call == notifyAllCall(Top.callbacks, Top.contexts, Top.arg, Top.i)
       IN /\ cbLog' = Append(cbLog, call)
          /\ stack' = Append(SetTop([Top EXCEPT !.pc = "call"]),
                             UserFrame(Top.ctx, call[2]))
    /\ UNCHANGED <<dirtyComponents, updateBatchNumber, asapCallbackQueue, asapEnqueued,
                   isBatchingUpdates, comp, ret, outcome, budget, updates, enqLog,
                   pooled, thrown, injected, notSched>>

\* the callback has returned, and the loop goes on, or it has thrown, and the
\* error leaves notifyAll
NotifyAllCalled ==
    /\ TopIs("notify")
    /\ ret.on
    /\ Top.pc = "call"
    /\ IF ret.err = NoError
       THEN stack' = SetTop([Top EXCEPT !.pc = "loop", !.i = @ + 1]) /\ ret' = NoRet
       ELSE Return(ret.err)
    /\ UNCHANGED <<dirtyComponents, updateBatchNumber, asapCallbackQueue, asapEnqueued,
                   isBatchingUpdates, comp, outcome, budget, updates, enqLog, cbLog,
                   pooled, thrown, injected, notSched>>

\* the loop of notifyAll is over: notifyAll returns
NotifyAllReturns ==
    /\ TopIs("notify")
    /\ ~ret.on
    /\ Top.pc = "loop"
    /\ ~notifyAllMore(Top.callbacks, Top.i)
    /\ Return(NoError)
    /\ UNCHANGED <<dirtyComponents, updateBatchNumber, asapCallbackQueue, asapEnqueued,
                   isBatchingUpdates, comp, outcome, budget, updates, enqLog, cbLog,
                   pooled, thrown, injected, notSched>>

Next ==
    \/ \E n \in Nodes : EnqueueUpdate(n)
    \/ \E n \in Nodes : EnqueueCallback(n)
    \/ \E direct \in BOOLEAN : BatchedUpdates(direct)
    \/ RenderNewRootComponent
    \/ InjectBatchingStrategy
    \/ InjectReconcileTransaction
    \/ \E call \in {"enqueueUpdate", "batchedUpdates"} : EnsureInjectedFails(call)
    \/ Asap
    \/ AsapOutsideBatch
    \/ EnqueueDidUpdate
    \/ UserReturns
    \/ UserThrows
    \/ UserResumes
    \/ BatchMethodEnds
    \/ FlushBatchedUpdatesClose
    \/ FlushBatchedUpdatesCloseEnds
    \/ ResetBatchedUpdatesClose
    \/ FlushBatchedUpdatesReturns
    \/ FlushBatchedUpdatesPerform
    \/ FlushBatchedUpdatesPerformed
    \/ FlushBatchedUpdatesAsap
    \/ FlushBatchedUpdatesNotified
    \/ NestedUpdatesInitialize
    \/ UpdateQueueingInitialize
    \/ FlushTransactionMethod
    \/ FlushTransactionMethodEnds
    \/ NestedUpdatesClose
    \/ NestedUpdatesCloseEnds
    \/ UpdateQueueingClose
    \/ UpdateQueueingCloseEnds
    \/ FlushTransactionReturns
    \/ OnDomReadyInitialize
    \/ ReconcileTransactionMethod
    \/ ReconcileTransactionMethodEnds
    \/ OnDomReadyClose
    \/ OnDomReadyCloseEnds
    \/ ReconcileTransactionReturns
    \/ RunBatchedUpdatesStarts
    \/ RunBatchedUpdatesIterates
    \/ RunBatchedUpdatesUpdated
    \/ RunBatchedUpdatesReturns
    \/ NotifyAllCalls
    \/ NotifyAllCalled
    \/ NotifyAllReturns

----------------------------------------------------------------------------
(* ReactReconciler and ReactRef: one node driven through mountComponent,   *)
(* receiveComponent and unmountComponent inside a reconcile transaction,   *)
(* whose queue (getReactMountReady) is notified when the transaction       *)
(* closes.                                                                 *)

\* `ref`: null, a string or a function
RefNull == [kind |-> "null", v |-> 0]
RefName(n) == [kind |-> "string", v |-> n]
RefCallback(f) == [kind |-> "function", v |-> f]
Refs ==
    {RefNull} \cup {RefName(n) : n \in 1..NumRefNames}
              \cup {RefCallback(f) : f \in 1..NumRefCallbacks}

\* `_owner` of an element that is not an object
NoOwner == 0
Owners == 1..NumOwners

\* an element that is not an object (null, false, a string or a number)
NotAnObject == [isObject |-> FALSE, id |-> 0, ref |-> RefNull, _owner |-> NoOwner]

\* the elements: two objects are the same element when they are one object
Elements ==
    {NotAnObject} \cup
    [isObject : {TRUE}, id : 1..NumElements, ref : Refs, _owner : Owners]

\* the contexts handed down to the node
RCContexts == 1..NumContexts

\* the callback ReactReconciler enqueues: the helper attachRefs
AttachRefsCallback == 1

\* the node: internalInstance
NoNode == [mounted |-> FALSE, _currentElement |-> NotAnObject, _context |-> 0]

\* no call of the dispatcher has been made
NoCall == [op |-> "none", prev |-> NotAnObject, next |-> NotAnObject,
           sameContext |-> FALSE, threw |-> FALSE]

\* what a call of the dispatcher returns when it returns no value
NoMarkup == "undefined"

\* the markup a node-kind mountComponent renders for an element
Markup(element) ==
    IF ~element.isObject THEN "<!---->"
    ELSE IF element.id = 1 THEN "<a/>" ELSE "<b/>"
Markups == {"<!---->", "<a/>", "<b/>"}

RCUnused ==
    [node |-> NoNode, ready |-> CallbackQueue(Undefined), inTxn |-> FALSE,
     at |-> "none", calls |-> <<>>, log |-> <<>>, attached |-> {},
     returned |-> NoMarkup]

\* one effect of the dispatcher, as the code running at w.at produces it
RCEvent(w, op, ref, owner, arg) ==
    [w EXCEPT !.log = Append(@, [op |-> op, at |-> w.at, call |-> Len(w.calls),
                                 ref |-> ref, owner |-> owner, arg |-> arg])]

\* ReactRef: attachRef(ref, component, owner)
attachRef(w, ref, owner) ==
    IF ref.kind = "function"
    THEN [RCEvent(w, "attachRef", ref, NoOwner, "instance")
            EXCEPT !.attached = @ \cup {<<ref, NoOwner>>}]
    ELSE [RCEvent(w, "attachRef", ref, owner, "instance")
            EXCEPT !.attached = @ \cup {<<ref, owner>>}]

\* ReactRef: detachRef(ref, component, owner)
detachRef(w, ref, owner) ==
    IF ref.kind = "function"
    THEN [RCEvent(w, "detachRef", ref, NoOwner, "null")
            EXCEPT !.attached = @ \ {<<ref, NoOwner>>}]
    ELSE [RCEvent(w, "detachRef", ref, owner, "instance")
            EXCEPT !.attached = @ \ {<<ref, owner>>}]

\* ReactRef.attachRefs(instance, element)
ReactRefAttachRefs(w, element) ==
    IF ~element.isObject THEN w
    ELSE IF element.ref # RefNull THEN attachRef(w, element.ref, element._owner)
    ELSE w

\* ReactRef.shouldUpdateRefs taking every change of owner for a change
shouldUpdateRefsAnyOwner(prevElement, nextElement) ==
    prevElement.ref # nextElement.ref \/ prevElement._owner # nextElement._owner

\* ReactRef.shouldUpdateRefs(prevElement, nextElement)
shouldUpdateRefs(prevElement, nextElement) ==
    LET prevRef == IF prevElement.isObject THEN prevElement.ref ELSE RefNull
        prevOwner == IF prevElement.isObject THEN prevElement._owner ELSE NoOwner
        nextRef == IF nextElement.isObject THEN nextElement.ref ELSE RefNull
        nextOwner == IF nextElement.isObject THEN nextElement._owner ELSE NoOwner
    IN  \/ prevRef # nextRef
        \/ (nextRef.kind = "string" /\ nextOwner # prevOwner)

\* ReactRef.detachRefs(instance, element)
detachRefs(w, element) ==
    IF ~element.isObject THEN w
    ELSE IF element.ref # RefNull THEN detachRef(w, element.ref, element._owner)
    ELSE w

\* ReactReconciler: the helper attachRefs, called with the node as `this`
attachRefs(w) == ReactRefAttachRefs(w, w.node._currentElement)

\* `internalInstance._currentElement && internalInstance._currentElement.ref
\* != null`
carriesRef(node) == node._currentElement.isObject /\ node._currentElement.ref # RefNull

\* `transaction.getReactMountReady().enqueue(attachRefs, internalInstance)`
enqueueAttachRefs(w) ==
    [RCEvent(w, "enqueue", w.node._currentElement.ref, NoOwner, "attachRefs")
       EXCEPT !.ready = enqueue(@, AttachRefsCallback, 1)]

\* the node-kind mountComponent: renders the element the node was created
\* for and returns the markup
nodeMountComponent(w, element, context) ==
    [RCEvent(w, "mountComponent", RefNull, NoOwner, Markup(element))
       EXCEPT !.node = [mounted |-> TRUE, _currentElement |-> element,
                        _context |-> context],
              !.returned = Markup(element)]

\* the node-kind receiveComponent: takes the next element and context, or
\* throws before it has taken them
nodeReceiveComponent(w, nextElement, context, throws) ==
    IF throws
    THEN RCEvent(w, "receiveComponent", RefNull, NoOwner, "throws")
    ELSE [RCEvent(w, "receiveComponent", RefNull, NoOwner, "returns")
            EXCEPT !.node._currentElement = nextElement, !.node._context = context]

\* the node-kind unmountComponent(safely)
nodeUnmountComponent(w, safely) ==
    [RCEvent(w, "unmountComponent", RefNull, NoOwner,
             IF safely THEN "safely" ELSE "not safely")
       EXCEPT !.node.mounted = FALSE]

\* ReactReconciler.mountComponent enqueueing attachRefs for every node
mountEnqueuesAttachRefsAlways(node) == TRUE

\* ReactReconciler.mountComponent: `internalInstance._currentElement &&
\* internalInstance._currentElement.ref != null`
mountEnqueuesAttachRefs(node) == carriesRef(node)

\* ReactReconciler.mountComponent; what it returns is the markup of the
\* node-kind mountComponent
mountComponent(w, element, context) ==
    LET m == nodeMountComponent(w, element, context)
    IN  IF mountEnqueuesAttachRefs(m.node) THEN enqueueAttachRefs(m) ELSE m

\* ReactReconciler.unmountComponent tearing the node down before it detaches
unmountComponentTeardownFirst(w, safely) ==
    detachRefs(nodeUnmountComponent(w, safely), w.node._currentElement)

\* ReactReconciler.unmountComponent
unmountComponent(w, safely) ==
    nodeUnmountComponent(detachRefs(w, w.node._currentElement), safely)

\* ReactReconciler.receiveComponent that never takes the early return
receiveComponentNeverSuperfluous(node, nextElement, context) == FALSE

\* ReactReconciler.receiveComponent: `nextElement === prevElement && context
\* === internalInstance._context`
receiveComponentSuperfluous(node, nextElement, context) ==
    nextElement = node._currentElement /\ context = node._context

\* ReactReconciler.receiveComponent enqueueing attachRefs for every ref
attachRefsEnqueuedAlways(refsChanged, node) == carriesRef(node)

\* ReactReconciler.receiveComponent: `refsChanged && _currentElement &&
\* _currentElement.ref != null`
attachRefsEnqueued(refsChanged, node) == refsChanged /\ carriesRef(node)

\* ReactReconciler.receiveComponent
receiveComponent(w, nextElement, context, throws) ==
    LET prevElement == w.node._currentElement
        refsChanged == shouldUpdateRefs(prevElement, nextElement)
        detached == IF refsChanged THEN detachRefs(w, prevElement) ELSE w
        received == nodeReceiveComponent(detached, nextElement, context, throws)
    IN  IF receiveComponentSuperfluous(w.node, nextElement, context) THEN w
        ELSE IF throws THEN received
        ELSE IF attachRefsEnqueued(refsChanged, received.node)
             THEN enqueueAttachRefs(received)
             ELSE received

----------------------------------------------------------------------------
(* A Transaction with wrappers w1..wn whose hooks and method return or     *)
(* throw as the environment chooses.                                       *)

TxIdle == [TxnBegin(0) EXCEPT !.phase = "idle"]

Hook(h, w, e) == [hook |-> h, w |-> w, threw |-> e]

InitTx ==
    /\ tx = TxIdle
    /\ txLog = <<>>

\* perform(method) is called
TxPerform(n) ==
    /\ tx.phase = "idle"
    /\ tx' = TxnBegin(n)
    /\ txLog' = <<>>
    /\ UNCHANGED notTx

\* wrapper idx initializes
TxInitialize(e) ==
    /\ tx.phase = "init"
    /\ tx' = TxnInitialized(tx, e)
    /\ txLog' = Append(txLog, Hook("initialize", tx.idx, e))
    /\ UNCHANGED notTx

\* the wrapped method runs
TxMethod(e) ==
    /\ tx.phase = "method"
    /\ tx' = TxnMethodEnded(tx, e)
    /\ txLog' = Append(txLog, Hook("method", 0, e))
    /\ UNCHANGED notTx

\* wrapper idx closes
TxClose(e) ==
    /\ tx.phase = "close"
    /\ TxnCloseRuns(tx)
    /\ tx' = TxnClosed(tx, e)
    /\ txLog' = Append(txLog, Hook("close", tx.idx, e))
    /\ UNCHANGED notTx

\* wrapper idx did not initialize: it is not closed
TxSkipClose ==
    /\ tx.phase = "close"
    /\ ~TxnCloseRuns(tx)
    /\ tx' = TxnClosed(tx, NoError)
    /\ UNCHANGED <<txLog, notTx>>

\* perform returns to its caller, or rethrows
TxReturn ==
    /\ tx.phase = "done"
    /\ tx' = [tx EXCEPT !.phase = "idle"]
    /\ UNCHANGED <<txLog, notTx>>

NextTx ==
    \/ \E n \in 1..MaxWrappers : TxPerform(n)
    \/ \E e \in Errors \cup {NoError} : TxInitialize(e)
    \/ \E e \in Errors \cup {NoError} : TxMethod(e)
    \/ \E e \in Errors \cup {NoError} : TxClose(e)
    \/ TxSkipClose
    \/ TxReturn

----------------------------------------------------------------------------
(* The CallbackQueue driven through its public operations, from the top    *)
(* level and from inside the callbacks notifyAll invokes. The callbacks do *)
(* not call notifyAll on the queue that is notifying them.                 *)

\* the pairs a queue holds, as the two parallel lists give them
Pairs(q) ==
    [k \in 1..Len(OrEmpty(q.callbacks)) |->
        <<OrEmpty(q.callbacks)[k],
          IF k <= Len(OrEmpty(q.contexts)) THEN OrEmpty(q.contexts)[k] ELSE Undefined>>]

\* no notifyAll is running
NoRun ==
    [pc |-> "idle", callbacks |-> <<>>, contexts |-> <<>>, arg |-> Undefined, i |-> 0,
     exp |-> <<>>, done |-> <<>>, pure |-> TRUE, reent |-> 0, added |-> <<>>]

\* no checkpoint is being followed
NoMark == [on |-> FALSE, c |-> 0, pairs |-> <<>>, n |-> 0, rolled |-> FALSE]

InitCQ ==
    /\ cq \in {CallbackQueue(a) : a \in Args}
    /\ cqRun = NoRun
    /\ cqGhost = <<>>
    /\ cqTampered = FALSE
    /\ cqMark = NoMark
    /\ InitTx
    /\ SchedUnused
    /\ rc = RCUnused
    /\ created = <<>>

\* user code runs at the top level or inside the callback being invoked
CQUserRuns == cqRun.pc \in {"idle", "in"}

\* the running notifyAll notes what its callbacks do to the queue; added
\* holds the pairs they enqueue
CQNote(run, isEnqueue) ==
    IF run.pc = "idle" THEN run
    ELSE [run EXCEPT !.pure = @ /\ isEnqueue,
                     !.reent = IF isEnqueue THEN @ + 1 ELSE @]

CQEnqueue(cb, ctx) ==
    /\ CQUserRuns
    /\ \/ Len(OrEmpty(cq.callbacks)) < MaxQLen
       \/ cqMark.on /\ ~cqMark.rolled /\ cqMark.n < MaxSpeculative
    /\ cqRun.pc = "in" => cqRun.reent < MaxReentrant
    /\ cq' = enqueue(cq, cb, ctx)
    /\ cqGhost' = Append(cqGhost, <<cb, ctx>>)
    /\ cqRun' = [CQNote(cqRun, TRUE) EXCEPT
                     !.added = IF cqRun.pc = "idle" THEN @ ELSE Append(@, <<cb, ctx>>)]
    /\ cqMark' = IF cqMark.on /\ ~cqMark.rolled THEN [cqMark EXCEPT !.n = @ + 1]
                 ELSE NoMark
    /\ UNCHANGED <<cqTampered, notCQ>>

\* c = checkpoint(): the length and, for the comparison after the rollback,
\* the pairs the queue holds now
CQCheckpoint ==
    /\ CQUserRuns
    /\ Len(OrEmpty(cq.callbacks)) <= MaxQLen
    /\ cqMark' = [on |-> TRUE, c |-> checkpoint(cq), pairs |-> Pairs(cq), n |-> 0,
                  rolled |-> FALSE]
    /\ UNCHANGED <<cq, cqRun, cqGhost, cqTampered, notCQ>>

CQReset ==
    /\ CQUserRuns
    /\ cq' = reset(cq)
    /\ cqGhost' = <<>>
    /\ cqRun' = CQNote(cqRun, FALSE)
    /\ cqMark' = NoMark
    /\ UNCHANGED <<cqTampered, notCQ>>

CQRollback(len) ==
    /\ CQUserRuns
    /\ cq' = rollback(cq, len)
    /\ cqGhost' = IF cq.callbacks.isNull THEN cqGhost
                  ELSE IF len <= Len(cqGhost) THEN SubSeq(cqGhost, 1, len)
                  ELSE cqGhost \o [k \in 1..(len - Len(cqGhost)) |-> <<Undefined, Undefined>>]
    /\ cqRun' = CQNote(cqRun, FALSE)
    /\ cqMark' = IF cqMark.on /\ ~cqMark.rolled /\ len = cqMark.c
                 THEN [cqMark EXCEPT !.rolled = TRUE]
                 ELSE NoMark
    /\ UNCHANGED <<cqTampered, notCQ>>

\* notifyAll() up to its loop
CQNotifyAllBegin ==
    /\ cqRun.pc = "idle"
    /\ IF ~notifyAllEnters(cq)
       THEN /\ cqRun' = [NoRun EXCEPT !.pc = "ok", !.exp = cqGhost]
            /\ UNCHANGED <<cq, cqGhost, cqMark>>
       ELSE IF notifyAllMismatch(cq)
       THEN /\ cqRun' = [NoRun EXCEPT !.pc = "invariant", !.exp = cqGhost]
            /\ UNCHANGED <<cq, cqGhost, cqMark>>
       ELSE /\ cq' = notifyAllDetach(cq)
            /\ cqGhost' = <<>>
            /\ cqMark' = NoMark
            /\ cqRun' = [NoRun EXCEPT !.pc = "loop",
                                      !.callbacks = cq.callbacks.a,
                                      !.contexts = cq.contexts.a,
                                      !.arg = cq.arg,
                                      !.exp = cqGhost]
    /\ UNCHANGED <<cqTampered, notCQ>>

\* one iteration of the loop of notifyAll: invoke callbacks[i]
CQInvoke ==
    /\ cqRun.pc = "loop"
    /\ notifyAllMore(cqRun.callbacks, cqRun.i)
    /\ LET call == notifyAllCall(cqRun.callbacks, cqRun.contexts, cqRun.arg, cqRun.i)
       IN IF call[1] = Undefined
          THEN \* undefined.call(...) is a TypeError
               cqRun' = [cqRun EXCEPT !.pc = "TypeError"]
          ELSE cqRun' = [cqRun EXCEPT !.pc = "in", !.done = Append(@, call)]
    /\ UNCHANGED <<cq, cqGhost, cqTampered, cqMark, notCQ>>

\* the callback returns; `i++`
CQCallbackReturns ==
    /\ cqRun.pc = "in"
    /\ cqRun' = [cqRun EXCEPT !.pc = "loop", !.i = @ + 1]
    /\ UNCHANGED <<cq, cqGhost, cqTampered, cqMark, notCQ>>

\* the callback throws: notifyAll is left by the exception
CQCallbackThrows ==
    /\ cqRun.pc = "in"
    /\ cqRun' = [cqRun EXCEPT !.pc = "throw"]
    /\ UNCHANGED <<cq, cqGhost, cqTampered, cqMark, notCQ>>

\* the loop is over: `callbacks.length = 0; contexts.length = 0` on the
\* detached lists, and notifyAll returns
CQNotifyAllEnd ==
    /\ cqRun.pc = "loop"
    /\ ~notifyAllMore(cqRun.callbacks, cqRun.i)
    /\ cqRun' = [cqRun EXCEPT !.pc = "ok", !.callbacks = <<>>, !.contexts = <<>>]
    /\ UNCHANGED <<cq, cqGhost, cqTampered, cqMark, notCQ>>

\* the caller of notifyAll goes on
CQLeave ==
    /\ cqRun.pc \in {"ok", "throw", "TypeError", "invariant"}
    /\ cqRun' = NoRun
    /\ UNCHANGED <<cq, cqGhost, cqTampered, cqMark, notCQ>>

\* a test reaches into the object and makes the two lists differ in length
CQTamper ==
    /\ cqRun.pc = "idle"
    /\ ~cqTampered
    /\ \E cb \in Callbacks :
         cq' = [cq EXCEPT !.callbacks = Arr(Append(OrEmpty(cq.callbacks), cb)),
                          !.contexts = Arr(OrEmpty(cq.contexts))]
    /\ cqTampered' = TRUE
    /\ cqMark' = NoMark
    /\ UNCHANGED <<cqRun, cqGhost, notCQ>>

NextCQ ==
    \/ \E cb \in Callbacks, ctx \in Contexts : CQEnqueue(cb, ctx)
    \/ CQReset
    \/ \E len \in 0..MaxQLen : CQRollback(len)
    \/ CQNotifyAllBegin
    \/ CQInvoke
    \/ CQCallbackReturns
    \/ CQCallbackThrows
    \/ CQNotifyAllEnd
    \/ CQLeave

SpecCQ == InitCQ /\ [][NextCQ]_vars

NextCQTamper == NextCQ \/ CQTamper

SpecCQTamper == InitCQ /\ [][NextCQTamper]_vars

\* the queue driven from the top level through checkpoint, enqueue, rollback
\* and reset
NextCQRollback ==
    \/ CQCheckpoint
    \/ \E cb \in Callbacks, ctx \in Contexts : CQEnqueue(cb, ctx)
    \/ \E len \in 0..MaxQLen : CQRollback(len)
    \/ CQReset

SpecCQRollback == InitCQ /\ [][NextCQRollback]_vars

\* the Transaction alone; the queue stays as constructed
InitTxOnly ==
    /\ cq = CallbackQueue(Undefined)
    /\ cqRun = NoRun
    /\ cqGhost = <<>>
    /\ cqTampered = FALSE
    /\ cqMark = NoMark
    /\ InitTx
    /\ SchedUnused
    /\ rc = RCUnused
    /\ created = <<>>

SpecTx == InitTxOnly /\ [][NextTx]_vars

\* the scheduler; the queue and the Transaction under test stay as constructed
Init ==
    /\ cq = CallbackQueue(Undefined)
    /\ cqRun = NoRun
    /\ cqGhost = <<>>
    /\ cqTampered = FALSE
    /\ cqMark = NoMark
    /\ InitTx
    /\ InitSched
    /\ rc = RCUnused
    /\ created = <<>>

Spec == Init /\ [][Next]_vars

----------------------------------------------------------------------------
(* The dispatcher driven by its callers: the reconcile transaction resets  *)
(* its queue when it begins and notifies it when it closes; in between the *)
(* node is mounted, updated and unmounted.                                 *)

\* a call of the dispatcher begins: the code at `at` runs from here on
RCCall(w, op, next, context, threw) ==
    [w EXCEPT !.at = op,
              !.returned = NoMarkup,
              !.calls = Append(@, [op |-> op, prev |-> w.node._currentElement,
                                   next |-> next,
                                   sameContext |-> (context = w.node._context),
                                   threw |-> threw])]

\* the method of the transaction is still running
RCPerforming ==
    /\ rc.inTxn
    /\ Len(rc.calls) < MaxCalls
    /\ \A c \in DOMAIN rc.calls : ~rc.calls[c].threw

\* the reconcile transaction begins: its queue is reset
RCTransactionBegin ==
    /\ ~rc.inTxn
    /\ rc' = [rc EXCEPT !.inTxn = TRUE, !.ready = reset(@), !.at = "perform",
                        !.calls = <<>>, !.log = <<>>, !.returned = NoMarkup]
    /\ UNCHANGED <<cqVars, tx, txLog, schedVars, created>>

RCMountComponent(element, context) ==
    /\ RCPerforming
    /\ ~rc.node.mounted
    /\ rc' = mountComponent(RCCall(rc, "mountComponent", element, context, FALSE),
                            element, context)
    /\ UNCHANGED <<cqVars, tx, txLog, schedVars, created>>

RCReceiveComponent(nextElement, context, throws) ==
    /\ RCPerforming
    /\ rc.node.mounted
    /\ rc' = receiveComponent(
                 RCCall(rc, "receiveComponent", nextElement, context,
                        throws /\ ~receiveComponentSuperfluous(rc.node, nextElement,
                                                               context)),
                 nextElement, context, throws)
    /\ UNCHANGED <<cqVars, tx, txLog, schedVars, created>>

\* unmountComponent takes no transaction: it is called inside one (a child
\* removed by an update) and outside (ReactMount)
RCUnmountComponent(safely) ==
    /\ rc.inTxn => RCPerforming
    /\ rc.node.mounted
    /\ rc' = unmountComponent(RCCall(rc, "unmountComponent", NotAnObject,
                                     rc.node._context, FALSE), safely)
    /\ UNCHANGED <<cqVars, tx, txLog, schedVars, created>>

\* notifyAll() of the transaction's queue: the loop over the callbacks, each
\* of them attachRefs with the node as receiver
RECURSIVE RCNotifyAllFrom(_, _, _)
RCNotifyAllFrom(w, callbacks, i) ==
    IF notifyAllMore(callbacks, i)
    THEN RCNotifyAllFrom(attachRefs(w), callbacks, i + 1)
    ELSE w

\* the reconcile transaction closes: the structural mutation is complete and
\* the queue is notified
RCTransactionClose ==
    /\ rc.inTxn
    /\ LET w == [rc EXCEPT !.inTxn = FALSE, !.at = "notifyAll",
                            !.returned = NoMarkup]
       IN  rc' = IF notifyAllEnters(w.ready)
                 THEN RCNotifyAllFrom([w EXCEPT !.ready = notifyAllDetach(@)],
                                      w.ready.callbacks.a, 0)
                 ELSE w
    /\ UNCHANGED <<cqVars, tx, txLog, schedVars, created>>

InitRC ==
    /\ cq = CallbackQueue(Undefined)
    /\ cqRun = NoRun
    /\ cqGhost = <<>>
    /\ cqTampered = FALSE
    /\ cqMark = NoMark
    /\ InitTx
    /\ SchedUnused
    /\ rc = RCUnused
    /\ created = <<>>

NextRC ==
    \/ RCTransactionBegin
    \/ \E element \in Elements, context \in RCContexts :
           RCMountComponent(element, context)
    \/ \E nextElement \in Elements, context \in RCContexts, throws \in BOOLEAN :
           RCReceiveComponent(nextElement, context, throws)
    \/ \E safely \in BOOLEAN : RCUnmountComponent(safely)
    \/ RCTransactionClose

SpecRC == InitRC /\ [][NextRC]_vars

----------------------------------------------------------------------------
(* instantiateReactComponent: the node variant chosen for a ReactNode.     *)

\* `element.type`: what typeof gives for it and, for a function, what its
\* prototype holds
ElementTypes ==
    [typeof : {"string", "object", "undefined", "number"},
     prototype : {FALSE}, mountComponent : {FALSE}, receiveComponent : {FALSE}]
    \cup
    { t \in [typeof : {"function"}, prototype : BOOLEAN,
             mountComponent : BOOLEAN, receiveComponent : BOOLEAN] :
          ~t.prototype => (~t.mountComponent /\ ~t.receiveComponent) }

NoType ==
    [typeof |-> "undefined", prototype |-> FALSE, mountComponent |-> FALSE,
     receiveComponent |-> FALSE]

\* the ReactNodes: null, false, true, undefined, a string, a number, or an
\* element (typeof 'object') with its type
ReactNodes ==
    [kind : {"null", "false", "true", "undefined", "string", "number"},
     type : {NoType}, id : 1..NumElements]
    \cup [kind : {"object"}, type : ElementTypes, id : 1..NumElements]

\* what a factory or a constructor leaves in the two fields of the diffing
\* algorithms
RawFields == {0, 1}

\* isInternalComponentType accepting a prototype without receiveComponent
isInternalComponentTypeMountOnly(type) ==
    type.typeof = "function" /\ type.prototype /\ type.mountComponent

\* isInternalComponentType(type)
isInternalComponentType(type) ==
    /\ type.typeof = "function"
    /\ type.prototype
    /\ type.mountComponent
    /\ type.receiveComponent

\* an instance as its factory or constructor returns it
RawInstance(variant, node, raw) ==
    [variant |-> variant, node |-> node, _mountIndex |-> raw,
     _mountImage |-> IF raw = 0 THEN "null" ELSE "image"]

\* the result of a call: the instance returned, or the error thrown
Instantiated(instance) == [err |-> NoError, instance |-> instance]
InstantiateFails(node) ==
    [err |-> InvariantViolation, instance |-> RawInstance("none", node, 0)]

\* instantiateReactComponent(node, shouldHaveDebugID)
instantiateReactComponent(node, raw) ==
    LET finish(instance) ==
            Instantiated([instance EXCEPT !._mountIndex = 0, !._mountImage = "null"])
    IN  IF node.kind \in {"null", "false"}
        THEN finish(RawInstance("ReactEmptyComponent", node, raw))
        ELSE IF node.kind = "object"
        THEN IF node.type.typeof # "function" /\ node.type.typeof # "string"
             THEN InstantiateFails(node)
             ELSE IF node.type.typeof = "string"
             THEN finish(RawInstance("ReactHostComponent", node, raw))
             ELSE IF isInternalComponentType(node.type)
             THEN finish(RawInstance("element.type", node, raw))
             ELSE finish(RawInstance("ReactCompositeComponentWrapper", node, raw))
        ELSE IF node.kind \in {"string", "number"}
        THEN finish(RawInstance("ReactHostComponent.text", node, raw))
        ELSE InstantiateFails(node)

InstantiateReactComponent(node, raw) ==
    /\ Len(created) < MaxInstances
    /\ created' = Append(created, [node |-> node,
                                   result |-> instantiateReactComponent(node, raw)])
    /\ UNCHANGED <<cqVars, tx, txLog, schedVars, rc>>

InitInstantiate ==
    /\ cq = CallbackQueue(Undefined)
    /\ cqRun = NoRun
    /\ cqGhost = <<>>
    /\ cqTampered = FALSE
    /\ cqMark = NoMark
    /\ InitTx
    /\ SchedUnused
    /\ rc = RCUnused
    /\ created = <<>>

NextInstantiate ==
    \E node \in ReactNodes, raw \in RawFields : InstantiateReactComponent(node, raw)

SpecInstantiate == InitInstantiate /\ [][NextInstantiate]_vars

----------------------------------------------------------------------------
(* Claims about CallbackQueue.                                             *)

\* C9: notifyAll invokes every queued callback exactly once, in the order
\* the pairs were enqueued, each with the context it was enqueued with as
\* receiver and the queue's shared argument; when it returns and its
\* callbacks did not touch the queue, the queue is empty, so that a notifyAll
\* that follows immediately has nothing owed and invokes nothing.
C9_NotifyAllFifoOnce ==
    /\ Len(cqRun.done) <= Len(cqRun.exp)
    /\ \A k \in 1..Len(cqRun.done) :
         cqRun.done[k] = <<cqRun.exp[k][1], cqRun.exp[k][2], cq.arg>>
    /\ cqRun.pc = "ok" => Len(cqRun.done) = Len(cqRun.exp)
    /\ (cqRun.pc = "ok" /\ cqRun.pure /\ cqRun.reent = 0) =>
         (~notifyAllEnters(cq) /\ checkpoint(cq) = 0 /\ cqGhost = <<>>)

\* a notifyAll returned after invoking two different callbacks with two
\* different contexts
C9_Witness ==
    /\ cqRun.pc = "ok"
    /\ Len(cqRun.done) = 2
    /\ cqRun.done[1][1] # cqRun.done[2][1]
    /\ cqRun.done[1][2] # cqRun.done[2][2]
    /\ cqRun.pure /\ cqRun.reent = 0

\* C10: after any sequence of public operations the callback count equals the
\* context count and the mismatch check of notifyAll does not fire; once
\* the counts were made to differ by direct manipulation, notifyAll fails
\* fatally before it invokes any callback, and never iterates over lists of
\* different lengths.
C10_CountsEqual ==
    /\ ~cqTampered =>
         /\ Len(OrEmpty(cq.callbacks)) = Len(OrEmpty(cq.contexts))
         /\ cq.callbacks.isNull <=> cq.contexts.isNull
         /\ cqRun.pc # "invariant"
    /\ cqRun.pc = "invariant" => cqRun.done = <<>>
    /\ Len(cqRun.callbacks) = Len(cqRun.contexts)

\* notifyAll failed fatally on a queue with two callbacks and one context
C10_Witness ==
    /\ cqRun.pc = "invariant"
    /\ cqTampered
    /\ Len(OrEmpty(cq.callbacks)) = 2
    /\ Len(OrEmpty(cq.contexts)) = 1

\* C11: c = checkpoint(), then any number of enqueue calls, then rollback(c)
\* leaves the queue exactly as it was at the checkpoint: the same (callback,
\* context) pairs in the same order, as many contexts as callbacks, and
\* checkpoint() returns c again.
C11_RollbackRestores ==
    cqMark.rolled =>
        /\ Pairs(cq) = cqMark.pairs
        /\ Len(OrEmpty(cq.contexts)) = Len(cqMark.pairs)
        /\ checkpoint(cq) = cqMark.c

\* three pairs were enqueued after the checkpoint of a queue that held one,
\* and rolled back
C11_Witness ==
    /\ cqMark.rolled
    /\ cqMark.n = 3
    /\ cqMark.c = 1
    /\ cqMark.pairs[1][1] # Undefined

\* C12: a callback that enqueues on the queue that is notifying it does not
\* change what the running notifyAll invokes: only the pairs owed when it
\* began are invoked, and when it returns the queue holds exactly the pairs
\* enqueued during it, in order.
C12_EnqueueDuringNotifyAll ==
    (cqRun.pc \in {"loop", "in", "ok"} /\ cqRun.callbacks \o cqRun.done # <<>>
            /\ cqRun.pure) =>
        /\ Len(cqRun.done) <= Len(cqRun.exp)
        /\ \A k \in 1..Len(cqRun.done) :
               <<cqRun.done[k][1], cqRun.done[k][2]>> = cqRun.exp[k]
        /\ Pairs(cq) = cqRun.added
        /\ cqRun.pc = "ok" => Len(cqRun.done) = Len(cqRun.exp)

\* a notifyAll of two pairs returned, and two other pairs, enqueued by its
\* callbacks, wait for the next one
C12_Witness ==
    /\ cqRun.pc = "ok"
    /\ Len(cqRun.done) = 2
    /\ Len(cqRun.added) = 2
    /\ cqRun.added[1] # cqRun.added[2]
    /\ cqRun.added[1] # cqRun.exp[1]
    /\ cqRun.pure
    /\ Pairs(cq) = cqRun.added

----------------------------------------------------------------------------
(* Claims about Transaction.perform.                                       *)

\* the perform call recorded in txLog is over
TxEnded == tx.phase \in {"done", "idle"} /\ txLog # <<>>

\* the hooks of kind h that the log holds for wrapper w
TxHooks(h, w) == {i \in 1..Len(txLog) : txLog[i].hook = h /\ txLog[i].w = w}

\* the wrappers whose initialize returned normally
TxInitializedOK == {w \in 1..tx.n : \E i \in TxHooks("initialize", w) : txLog[i].threw = NoError}

\* the error of the first hook that threw, if any
TxFirstThrown ==
    LET threw == {i \in 1..Len(txLog) : txLog[i].threw # NoError}
    IN IF threw = {} THEN NoError
       ELSE txLog[CHOOSE i \in threw : \A j \in threw : i <= j].threw

\* C6: when a wrapper's initialize throws, no later wrapper initializes and
\* the method does not run: only closes follow, of wrappers registered before
\* it; and when perform is over, exactly the wrappers that initialized
\* successfully were closed, once each (for [w1, w2] with w2.initialize
\* throwing: w1.close runs, w2.close and the method do not).
C6_InitializeThrows ==
    \A i \in 1..Len(txLog) :
        (txLog[i].hook = "initialize" /\ txLog[i].threw # NoError) =>
            /\ \A j \in (i + 1)..Len(txLog) :
                 txLog[j].hook = "close" /\ txLog[j].w < txLog[i].w
            /\ TxEnded =>
                 \A w \in 1..tx.n :
                    Cardinality(TxHooks("close", w)) = IF w \in TxInitializedOK THEN 1 ELSE 0

\* perform over [w1, w2] ended after w2.initialize threw and w1 was closed
C6_Witness ==
    /\ tx.phase = "done"
    /\ tx.n = 2
    /\ Len(txLog) = 3
    /\ txLog[2].hook = "initialize" /\ txLog[2].w = 2 /\ txLog[2].threw # NoError
    /\ txLog[3].hook = "close" /\ txLog[3].w = 1

\* C7: when the method or a close throws, the closes of all wrappers that
\* initialized successfully are still attempted, and the error that perform
\* propagates once they were attempted is the first one encountered.
C7_FirstErrorPropagates ==
    /\ \A i \in 1..Len(txLog) :
         (txLog[i].hook \in {"method", "close"} /\ txLog[i].threw # NoError) =>
            /\ tx.err # NoError
            /\ TxEnded => \A w \in TxInitializedOK : Cardinality(TxHooks("close", w)) = 1
    /\ TxEnded => tx.err = TxFirstThrown

\* the method threw, a close threw another error, every wrapper was closed and
\* the error of the method is the one propagated
C7_Witness ==
    /\ tx.phase = "done"
    /\ tx.n = 2
    /\ Len(txLog) = 5
    /\ txLog[3].hook = "method" /\ txLog[3].threw # NoError
    /\ txLog[4].hook = "close" /\ txLog[4].threw \notin {NoError, txLog[3].threw}
    /\ txLog[5].hook = "close"
    /\ tx.err = txLog[3].threw

----------------------------------------------------------------------------
(* Claims about the scheduler.                                             *)

\* the calls of runBatchedUpdates in progress
RunFrames == {k \in 1..Len(stack) : stack[k].kind = "run"}

\* how often node n occurs in the list s
Occurrences(s, n) == Cardinality({k \in 1..Len(s) : s[k] = n})

\* C1: within one flush pass ReactReconciler.performUpdateIfNecessary is
\* invoked on the nodes of the dirty queue in ascending _mountOrder, strictly
\* ascending over distinct nodes, whatever the order they were enqueued in;
\* the pass that has gone through its loop has visited exactly the entries
\* the queue held when it started.
C1_AscendingMountOrder ==
    \A k \in RunFrames :
        LET f == stack[k]
        IN /\ \A i, j \in 1..Len(f.passLog) :
                  (i < j /\ f.passLog[i] # f.passLog[j])
                      => MountOrder(f.passLog[i]) < MountOrder(f.passLog[j])
           /\ \A i \in 1..(Len(f.passLog) - 1) :
                  MountOrder(f.passLog[i]) <= MountOrder(f.passLog[i + 1])
           /\ (f.pc = "loop" /\ f.i = f.len)
                  => \A n \in Nodes :
                         Occurrences(f.passLog, n) = Occurrences(f.queued, n)

\* a pass over all the nodes, enqueued in another order than the one they
\* are visited in
C1_Witness ==
    \E k \in RunFrames :
        /\ stack[k].pc = "loop"
        /\ stack[k].i = stack[k].len
        /\ {stack[k].passLog[i] : i \in 1..Len(stack[k].passLog)} = Nodes
        /\ stack[k].queued # stack[k].passLog
        /\ stack[k].queued[1] # stack[k].passLog[1]

\* C2: no node has its node-kind update invoked twice for the same flush
\* generation, however often enqueueUpdate was called for it before the pass
\* of that generation; the generations of one call from the top level are
\* later than every generation before the call.
C2_OncePerGeneration ==
    /\ \A i, j \in 1..Len(updates) : i # j => updates[i] # updates[j]
    /\ \A i \in 1..Len(updates) :
           /\ updates[i][2] <= updateBatchNumber
           /\ stack # <<>> => updates[i][2] > stack[1].from

\* a pass has gone over a node that was in the queue twice, and the node has
\* been updated in the generation of the pass
C2_Witness ==
    \E k \in RunFrames :
        \E n \in Nodes :
            /\ stack[k].pc = "loop"
            /\ stack[k].i = stack[k].len
            /\ Occurrences(stack[k].passLog, n) >= 2
            /\ \E i \in 1..Len(updates) : updates[i] = <<n, stack[k].gen>>

\* the drain started by the close of the outermost batching scope has just
\* returned normally to it
DrainReturned ==
    /\ TopIs("batch")
    /\ ret.on
    /\ ret.err = NoError
    /\ Top.phase = "close"
    /\ BATCH_WRAPPERS[Top.idx] = "FLUSH_BATCHED_UPDATES"

\* the calls of enqueueUpdate made from inside the update of a node
Cascaded == {k \in 1..Len(enqLog) : enqLog[k].ctx = "update"}

\* the node scheduled by call k of enqueueUpdate has been updated since
ReconciledSince(k) ==
    \E i \in (enqLog[k].at + 1)..Len(updates) : updates[i][1] = enqLog[k].node

\* the callbacks that were pending for the node at call k have been invoked
NotifiedSince(k) ==
    \A c \in {enqLog[k].cbs[j] : j \in 1..Len(enqLog[k].cbs)} :
        \E i \in 1..Len(cbLog) : cbLog[i][1] = c

\* C3: if the update of node A schedules node B during a drain, then
\* flushBatchedUpdates does not return before B has been reconciled and the
\* pending callbacks of B have been notified.
C3_CascadeResolvedBeforeIdle ==
    DrainReturned => \A k \in Cascaded : ReconciledSince(k) /\ NotifiedSince(k)

\* the frames of the given kind on the stack
Frames(kind) == {k \in 1..Len(stack) : stack[k].kind = kind}

\* the step is a call of enqueueUpdate or of batchedUpdates made while a
\* batching scope is open
CallInsideScope ==
    /\ isBatchingUpdates
    /\ budget'.enqueue # budget.enqueue \/ budget'.nested # budget.nested

\* the call only appends the node to the dirty queue, or only starts fn (the
\* function given to batchedUpdates, or the mount ReactMount hands to it)
OnlyQueuesOrRunsFn ==
    /\ updates' = updates
    /\ updateBatchNumber' = updateBatchNumber
    /\ isBatchingUpdates'
    /\ IF budget'.enqueue # budget.enqueue
       THEN /\ stack' = stack
            /\ dirtyComponents' = Append(dirtyComponents, enqLog'[Len(enqLog')].node)
       ELSE /\ \E ctx \in {"fn", "mount"} : stack' = Append(stack, UserFrame(ctx, 0))
            /\ dirtyComponents' = dirtyComponents

\* one batching scope at most is open, the outermost one; while its function
\* runs nothing is drained; it drains once, when it closes
OneDrainPerScope ==
    /\ Frames("batch") \subseteq {1}
    /\ \A k \in Frames("batch") :
           /\ stack[k].drains <= 1
           /\ stack[k].phase = "method"
                  => /\ stack[k].drains = 0
                     /\ updates = <<>>
                     /\ \A j \in (k + 1)..Len(stack) : stack[j].kind = "user"
    /\ (stack = <<>> /\ outcome.on /\ outcome.scope) => outcome.drains = 1

\* C4: while a batching scope is open, enqueueUpdate and nested calls of
\* batchedUpdates never invoke the Reconciliation Dispatcher: the node stays
\* in the dirty queue, a nested batchedUpdates only runs fn, and the drain
\* happens when the outermost scope closes, once per outermost scope.
C4_DrainOnlyAtOutermostClose ==
    /\ []OneDrainPerScope
    /\ [][CallInsideScope => OnlyQueuesOrRunsFn]_vars

\* fn of a nested batchedUpdates runs inside the fn of the outermost one,
\* nodes wait in the dirty queue, none has been updated
C4_Witness ==
    /\ Len(stack) = 3
    /\ stack[1].kind = "batch"
    /\ stack[1].phase = "method"
    /\ stack[2] = UserFrame("fn", 0)
    /\ stack[3] = UserFrame("fn", 0)
    /\ Len(dirtyComponents) >= 2
    /\ updates = <<>>

\* a call of enqueueUpdate made outside any batching scope has just
\* returned normally
EnqueueUpdateReturned ==
    /\ stack = <<>>
    /\ outcome.on
    /\ outcome.call = "enqueueUpdate"
    /\ outcome.err = NoError

\* C5: when enqueueUpdate(node), called while no batching scope is open,
\* returns normally, the node has been reconciled in its tagged generation,
\* the dirty queue is empty and isBatchingUpdates is false again.
C5_EnqueueOutsideScopeDrains ==
    EnqueueUpdateReturned =>
        /\ \E i \in 1..Len(updates) : updates[i] = <<outcome.node, outcome.gen>>
        /\ dirtyComponents = <<>>
        /\ ~isBatchingUpdates

\* the order of the hooks of one pass of the flush transaction
FlushOrder ==
    <<"NESTED_UPDATES.initialize", "UPDATE_QUEUEING.initialize",
      "reconcile.initialize", "runBatchedUpdates", "reconcile.close",
      "NESTED_UPDATES.close", "UPDATE_QUEUEING.close">>

\* C8: perform runs the initialize of every wrapper in registration order
\* before the method and the close of every wrapper after it in the same
\* order; one pass of the flush transaction runs NESTED_UPDATES.initialize,
\* UPDATE_QUEUEING.initialize, the perform of the reconcile transaction (its
\* initialize, runBatchedUpdates, its close), NESTED_UPDATES.close,
\* UPDATE_QUEUEING.close.
C8_FlushHookOrder ==
    \A k \in Frames("flushTxn") :
        /\ Len(stack[k].log) <= Len(FlushOrder)
        /\ stack[k].log = SubSeq(FlushOrder, 1, Len(stack[k].log))
        /\ stack[k].phase = "done" => stack[k].log = FlushOrder

\* the perform of a flush transaction is over, after a pass that updated a
\* node and collected a callback
C8_Witness ==
    /\ TopIs("flushTxn")
    /\ Top.phase = "done"
    /\ Top.log = FlushOrder
    /\ updates # <<>>
    /\ cbLog # <<>>

\* flushBatchedUpdates has just begun to notify the asap queue
AsapNotifyStarts ==
    /\ TopIs("notify")
    /\ Top.ctx = "asap"
    /\ Top.pc = "loop"
    /\ Top.i = 0

\* C13: cascading updates triggered during a flush pass are fully resolved
\* before any asap callback runs: when flushBatchedUpdates starts notifying
\* the asap queue, every node that was scheduled from inside the update of a
\* node has been reconciled since.
C13_CascadeResolvedBeforeAsap ==
    AsapNotifyStarts => \A k \in Cascaded : ReconciledSince(k)

\* the step ends a call of asap
AsapCalled == budget'.asap # budget.asap \/ outcome'.call = "asap"

\* C14: asap(callback, context) called while no batching scope is open fails
\* fatally, and the failed call changes nothing: the callback is not added
\* to the asap queue and asapEnqueued keeps its value.
C14_AsapOutsideScopeFails ==
    [][(~isBatchingUpdates /\ AsapCalled) =>
          /\ outcome'.on
          /\ outcome'.err \in {InvariantViolation, TypeError}
          /\ UNCHANGED <<asapCallbackQueue, asapEnqueued, dirtyComponents, budget>>]_vars

\* asap has failed at the top level after a drain, with both collaborators
\* injected
C14_Witness ==
    /\ stack = <<>>
    /\ outcome.on
    /\ outcome.call = "asap"
    /\ outcome.err = InvariantViolation
    /\ ensureInjected(injected)
    /\ updateBatchNumber > 0

\* C15: every pooled object acquired with getPooled is released exactly
\* once, also on the paths where the operation performed with it throws:
\* when the scheduler is back at the top level, no flush transaction taken
\* from the pool is left unreleased.
C15_PooledReleasedOnce ==
    /\ pooled >= 0
    /\ stack = <<>> => pooled = 0

\* C16: an error thrown by the update of a node during a flush pass is not
\* swallowed: it leaves the perform of the flush transaction and reaches the
\* caller of the drain, and before it does both close hooks of the flush
\* transaction have run, so the callback queue of the pass is left drained.
C16_UpdateErrorPropagates ==
    /\ \A k \in Frames("flushTxn") :
           (stack[k].phase = "done" /\ stack[k].err # NoError) =>
               /\ \E i \in 1..Len(stack[k].log) : stack[k].log[i] = "NESTED_UPDATES.close"
               /\ \E i \in 1..Len(stack[k].log) : stack[k].log[i] = "UPDATE_QUEUEING.close"
               /\ ~notifyAllEnters(stack[k].callbackQueue)
    /\ thrown.ctx = "update" =>
           /\ (TopIs("batch") /\ ret.on) => ret.err = thrown.err
           /\ (stack = <<>> /\ outcome.on /\ outcome.scope) => outcome.err = thrown.err

\* the update of the second node of a pass threw, and the call that opened
\* the scope has ended with that error
C16_Witness ==
    /\ stack = <<>>
    /\ outcome.on
    /\ outcome.scope
    /\ thrown.ctx = "update"
    /\ outcome.err = thrown.err
    /\ Len(updates) >= 2

\* C17: while the batching strategy or the reconcile transaction class has
\* not been injected, batchedUpdates, enqueueUpdate and asap fail, and leave
\* the dirty queue, the asap queue, the generation counter and the tags of
\* the nodes as they are.
C17_NotInjectedFails ==
    [][~ensureInjected(injected) =>
          /\ budget'.asap = budget.asap
          /\ UNCHANGED <<dirtyComponents, asapCallbackQueue, asapEnqueued,
                         updateBatchNumber, comp>>]_vars

----------------------------------------------------------------------------
(* Claims about the reconciliation dispatcher and the refs.                *)

\* the effects call number c of the dispatcher produced while it ran
RCEffects(c, op) ==
    {i \in DOMAIN rc.log :
        rc.log[i].call = c /\ rc.log[i].at = rc.calls[c].op /\ rc.log[i].op = op}

\* the ref target differs between two elements: another ref, or a name
\* read against another owner
RefTargetChanged(prev, next) ==
    \/ prev.ref # next.ref
    \/ (next.ref.kind = "string" /\ prev._owner # next._owner)

\* C18: receiveComponent with the element the node already holds (the same
\* object) and the context it already holds has no effect: the node-kind
\* receiveComponent is not invoked, no ref is detached or attached, nothing
\* is enqueued into the queue of the transaction, the node is as it was.
C18_IdenticalElementNoEffect ==
    [][(/\ Len(rc'.calls) = Len(rc.calls) + 1
        /\ rc'.calls[Len(rc'.calls)].op = "receiveComponent"
        /\ rc'.calls[Len(rc'.calls)].next = rc.node._currentElement
        /\ rc'.calls[Len(rc'.calls)].sameContext)
       => /\ rc'.log = rc.log
          /\ rc'.ready = rc.ready
          /\ rc'.attached = rc.attached
          /\ rc'.node = rc.node]_vars

\* C18 witness: receiveComponent was called with the element and context of
\* a node whose element carries a ref
C18_Witness ==
    \E c \in DOMAIN rc.calls :
        /\ rc.calls[c].op = "receiveComponent"
        /\ rc.calls[c].next = rc.calls[c].prev
        /\ rc.calls[c].sameContext
        /\ rc.calls[c].prev.ref # RefNull
        /\ rc.node._currentElement = rc.calls[c].prev

\* C19: in receiveComponent, when the ref target changed the old ref is
\* detached before the node-kind receiveComponent is called; attachRefs is
\* enqueued only after the node-kind receiveComponent returned, only when
\* the ref target changed and the element the node then holds carries a
\* ref; a ref is attached only by the notifyAll that follows, after the
\* detach of the update; when the ref target did not change nothing is
\* detached and nothing is enqueued.
C19_DetachBeforeDelegateAttachAfter ==
    /\ \A c \in DOMAIN rc.calls :
        rc.calls[c].op = "receiveComponent" =>
            LET call == rc.calls[c]
                changed == RefTargetChanged(call.prev, call.next)
                D == RCEffects(c, "detachRef")
                G == RCEffects(c, "receiveComponent")
                Q == RCEffects(c, "enqueue")
            IN  /\ \A d \in D, g \in G : d < g
                /\ \A q \in Q : \E g \in G : g < q /\ rc.log[g].arg = "returns"
                /\ \A q \in Q : rc.log[q].ref = call.next.ref /\ call.next.ref # RefNull
                /\ \A d \in D : rc.log[d].ref = call.prev.ref
                /\ ~changed => D = {} /\ Q = {}
                /\ (changed /\ call.prev.ref # RefNull) => Cardinality(D) = 1
                /\ (changed /\ ~call.threw /\ call.next.ref # RefNull)
                       => Cardinality(Q) = 1
                /\ RCEffects(c, "attachRef") = {}
    /\ \A i, j \in DOMAIN rc.log :
        (/\ rc.log[i].op = "attachRef"
         /\ rc.log[j].op = "detachRef" /\ rc.log[j].at = "receiveComponent")
        => rc.log[i].at = "notifyAll" /\ j < i

\* C19 witness: an update changed the ref of a node from one ref to
\* another; the old one was detached, the new one attached by notifyAll
C19_Witness ==
    /\ rc.at = "notifyAll"
    /\ \E c \in DOMAIN rc.calls :
        /\ rc.calls[c].op = "receiveComponent"
        /\ rc.calls[c].prev.ref # RefNull
        /\ rc.calls[c].next.ref # RefNull
        /\ rc.calls[c].prev.ref # rc.calls[c].next.ref
        /\ RCEffects(c, "detachRef") # {}
        /\ \E i \in DOMAIN rc.log :
               rc.log[i].op = "attachRef" /\ rc.log[i].ref = rc.calls[c].next.ref

\* C20: when an update changes the ref of a node from the name "a" to the
\* callback cb, the named ref is detached before cb is invoked with the
\* instance, and both happen in the notifyAll that follows the structural
\* mutation, not during the update call.
C20_RefChangeInPostUpdatePhase ==
    \A c \in DOMAIN rc.calls :
        (/\ rc.calls[c].op = "receiveComponent"
         /\ rc.calls[c].prev.ref = RefName(1)
         /\ rc.calls[c].next.ref = RefCallback(1)
         /\ ~rc.calls[c].threw
         /\ rc.at = "notifyAll")
        => /\ \E d, a \in DOMAIN rc.log :
                 /\ d < a
                 /\ rc.log[d].op = "detachRef" /\ rc.log[d].ref = RefName(1)
                 /\ rc.log[a].op = "attachRef" /\ rc.log[a].ref = RefCallback(1)
                 /\ rc.log[a].arg = "instance"
           /\ \A i \in DOMAIN rc.log :
                 (/\ rc.log[i].op \in {"detachRef", "attachRef"}
                  /\ rc.log[i].ref \in {RefName(1), RefCallback(1)})
                 => rc.log[i].at = "notifyAll"

\* the place a ref is attached at: a callback has no owner
RefTarget(element) ==
    <<element.ref, IF element.ref.kind = "function" THEN NoOwner ELSE element._owner>>

\* C21: mountComponent returns the markup of the node-kind mountComponent;
\* it enqueues attachRefs with the node, once, after the node-kind
\* mountComponent, exactly when the element of the node carries a ref; it
\* attaches no ref itself. A ref is attached only when the queue is
\* notified: a callback is called with the instance, a name is registered
\* with the owner of the element.
C21_MountEnqueuesAttach ==
    /\ \A c \in DOMAIN rc.calls :
        rc.calls[c].op = "mountComponent" =>
            LET G == RCEffects(c, "mountComponent")
                Q == RCEffects(c, "enqueue")
            IN  /\ Cardinality(G) = 1
                /\ Cardinality(Q) = IF rc.calls[c].next.ref # RefNull THEN 1 ELSE 0
                /\ \A q \in Q, g \in G : g < q
                /\ RCEffects(c, "attachRef") = {}
                /\ (rc.at = "mountComponent" /\ c = Len(rc.calls)) =>
                       /\ rc.returned = Markup(rc.calls[c].next)
                       /\ \A g \in G : rc.returned = rc.log[g].arg
                       /\ Q # {} =>
                              /\ notifyAllEnters(rc.ready)
                              /\ rc.ready.callbacks.a[Len(rc.ready.callbacks.a)]
                                     = AttachRefsCallback
                              /\ rc.ready.contexts.a[Len(rc.ready.contexts.a)] = 1
    /\ \A i \in DOMAIN rc.log :
        rc.log[i].op = "attachRef" =>
            /\ rc.log[i].at = "notifyAll"
            /\ rc.log[i].arg = "instance"
            /\ rc.at = "notifyAll" =>
                   /\ <<rc.log[i].ref, rc.log[i].owner>> = RefTarget(rc.node._currentElement)
                   /\ <<rc.log[i].ref, rc.log[i].owner>> \in rc.attached
    /\ (/\ rc.at = "notifyAll"
        /\ Len(rc.calls) = 1
        /\ rc.calls[1].op = "mountComponent"
        /\ rc.calls[1].next.ref # RefNull)
       => Cardinality({i \in DOMAIN rc.log : rc.log[i].op = "attachRef"}) = 1

\* C21 witness: a node whose element carries a name was mounted, and the
\* name was registered with the owner when the queue was notified
C21_Witness ==
    /\ rc.at = "notifyAll"
    /\ Len(rc.calls) = 1
    /\ rc.calls[1].op = "mountComponent"
    /\ rc.calls[1].next.ref.kind = "string"
    /\ \E i \in DOMAIN rc.log :
           rc.log[i].op = "attachRef" /\ rc.log[i].owner = rc.calls[1].next._owner

\* C22: unmountComponent detaches the ref of the element of the node, if it
\* carries one, before it calls the node-kind unmountComponent(safely): a
\* callback is called with null, a name is removed from the owner of the
\* element.
C22_UnmountDetachesFirst ==
    \A c \in DOMAIN rc.calls :
        rc.calls[c].op = "unmountComponent" =>
            LET prev == rc.calls[c].prev
                D == RCEffects(c, "detachRef")
                G == RCEffects(c, "unmountComponent")
            IN  /\ Cardinality(G) = 1
                /\ Cardinality(D) = IF prev.ref # RefNull THEN 1 ELSE 0
                /\ \A d \in D, g \in G : d < g
                /\ \A d \in D :
                       /\ <<rc.log[d].ref, rc.log[d].owner>> = RefTarget(prev)
                       /\ prev.ref.kind = "function" => rc.log[d].arg = "null"
                /\ (rc.at = "unmountComponent" /\ c = Len(rc.calls)) =>
                       /\ ~rc.node.mounted
                       /\ prev.ref # RefNull => RefTarget(prev) \notin rc.attached

\* C22 witness: a node whose callback ref was attached has been unmounted
C22_Witness ==
    /\ rc.at = "unmountComponent"
    /\ rc.calls[Len(rc.calls)].prev.ref.kind = "function"
    /\ RCEffects(Len(rc.calls), "detachRef") # {}
    /\ \E i \in DOMAIN rc.log : rc.log[i].op = "attachRef"

\* ReactRef.shouldUpdateRefs as the comparison of (ref, owner) pairs: the
\* ref differs, or the next ref is a name and the owner differs
RefPairChanged(prev, next) ==
    LET ref(e) == IF e.isObject THEN e.ref ELSE RefNull
        owner(e) == IF e.isObject THEN e._owner ELSE NoOwner
    IN  \/ ref(next) # ref(prev)
        \/ (ref(next).kind = "string" /\ owner(next) # owner(prev))

\* C23: for the previous and the next element of every update,
\* shouldUpdateRefs is true exactly when the ref of next differs from the
\* ref of prev, or the ref of next is a name and the owners differ; an
\* element that is not an object counts as ref null, owner null; an owner
\* change with the same callback ref is not a change.
C23_ShouldUpdateRefs ==
    \A c \in DOMAIN rc.calls :
        rc.calls[c].op = "receiveComponent" =>
            LET prev == rc.calls[c].prev
                next == rc.calls[c].next
            IN  /\ shouldUpdateRefs(prev, next) <=> RefPairChanged(prev, next)
                /\ (/\ prev.ref = next.ref
                    /\ next.ref.kind = "function"
                    /\ prev._owner # next._owner)
                   => /\ ~shouldUpdateRefs(prev, next)
                      /\ RCEffects(c, "detachRef") = {}
                      /\ RCEffects(c, "enqueue") = {}

\* C23 witness: an update kept the callback ref and changed the owner
C23_Witness ==
    \E c \in DOMAIN rc.calls :
        /\ rc.calls[c].op = "receiveComponent"
        /\ rc.calls[c].prev.ref = rc.calls[c].next.ref
        /\ rc.calls[c].next.ref.kind = "function"
        /\ rc.calls[c].prev._owner # rc.calls[c].next._owner

----------------------------------------------------------------------------
(* More claims about the scheduler.                                        *)

\* C24: ReactReconciler.performUpdateIfNecessary(node, transaction, g) calls
\* the node-kind update exactly when the tag of the node equals g; when it
\* does not, the node-kind update is not called and the tag stays as it is.
C24_DelegatesOnMatchingTag ==
    [][RunBatchedUpdatesIterates =>
          LET node == dirtyComponents[Top.i + 1]
              g == updateBatchNumber
          IN  IF comp[node].updateBatchNumber = g
              THEN /\ updates' = Append(updates, <<node, g>>)
                   /\ stack'[Len(stack')] = UserFrame("update", node)
              ELSE /\ updates' = updates
                   /\ comp'[node].updateBatchNumber = comp[node].updateBatchNumber
                   /\ Len(stack') = Len(stack)]_vars

\* C24 witness: a pass has visited a node whose tag matched, and updated
\* it, and a node whose tag did not match, and left it alone
C24_Witness ==
    /\ TopIs("run")
    /\ Top.pc = "loop"
    /\ \E j, k \in DOMAIN Top.passLog :
           /\ \E u \in DOMAIN updates : updates[u] = <<Top.passLog[j], Top.gen>>
           /\ \A u \in DOMAIN updates : updates[u][1] # Top.passLog[k]
           /\ comp[Top.passLog[k]].updateBatchNumber # NullBatch

\* the call made from the top level has returned normally
ReturnedNormally == stack = <<>> /\ outcome.on /\ outcome.err = NoError

\* call k of enqueueUpdate was made while a flush pass was executing: from
\* the update of a node or from a callback of the reconcile transaction
DuringPass(k) == enqLog[k].ctx \in {"update", "didUpdate"}

\* the updates of node n in generation g after the first `at` updates
UpdatesSince(at, n, g) == {i \in (at + 1)..Len(updates) : updates[i] = <<n, g>>}

CallbackNotifyStarts ==
    /\ TopIs("notify")
    /\ Top.ctx = "callback"
    /\ Top.pc = "loop"
    /\ Top.i = 0
    /\ ~ret.on

\* the flush transaction whose close is notifying
NotifyingPass == stack[Len(stack) - 1]

\* C27: a node scheduled during flush pass g, from the update of a node or
\* from a callback of the reconcile transaction, has been reconciled when
\* UPDATE_QUEUEING.close of pass g begins to notify the callbacks collected
\* by pass g: NESTED_UPDATES.close has removed the processed entries and
\* drained recursively before.
C27_CascadeBeforeCallbacks ==
    (CallbackNotifyStarts /\ notifyAllMore(Top.callbacks, Top.i)) =>
        \A k \in DOMAIN enqLog :
            (DuringPass(k) /\ enqLog[k].ubn = NotifyingPass.gen) => ReconciledSince(k)

\* the pass of the flush transaction f, which has reconciled the node,
\* returned normally
ReconciledBy(f, p) ==
    /\ p.matched
    /\ \E i \in DOMAIN f.popped : f.popped[i] = p
    /\ f.err = NoError

\* the callbacks added to a node while pass g was reconciling it
AddedWhileReconciled(g) ==
    {enqLog[k].cb : k \in {j \in DOMAIN enqLog :
                              /\ enqLog[j].cb # 0
                              /\ enqLog[j].ctx = "update"
                              /\ enqLog[j].by = enqLog[j].node
                              /\ enqLog[j].ubn = g}}

\* C28: for every node reconciled by a pass, each callback that was in its
\* _pendingCallbacks when the pass reached it is invoked exactly once, with
\* the public instance of the node as receiver, by UPDATE_QUEUEING.close of
\* that pass, after the loop of the pass; a callback added to the node while
\* the pass was reconciling it is not delivered by this pass.
C28_CallbacksDeliveredByPass ==
    (/\ TopIs("notify")
     /\ Top.ctx = "callback"
     /\ Top.pc = "loop"
     /\ ~ret.on
     /\ ~notifyAllMore(Top.callbacks, Top.i))
    => LET f == NotifyingPass
       IN  /\ \A i \in DOMAIN f.popped :
                  ReconciledBy(f, f.popped[i]) =>
                      \A j \in DOMAIN f.popped[i].cbs :
                          LET c == f.popped[i].cbs[j]
                          IN  /\ Cardinality({x \in DOMAIN Top.callbacks :
                                                 Top.callbacks[x] = c}) = 1
                              /\ \A x \in DOMAIN Top.callbacks :
                                     Top.callbacks[x] = c =>
                                         Top.contexts[x] = PublicInstance(f.popped[i].node)
                              /\ Cardinality({x \in DOMAIN cbLog : cbLog[x][1] = c}) = 1
           /\ f.err = NoError => Len(f.popped) = f.dirtyComponentsLength
           /\ \A x \in DOMAIN Top.callbacks :
                  Top.callbacks[x] \notin AddedWhileReconciled(f.gen)

\* C29: in a flush pass a node whose tag does not match the generation is
\* skipped: it is not reconciled, its _pendingCallbacks are not taken from
\* it and not put into the callback queue of the pass; a node whose tag
\* matches has its callbacks taken, is reconciled, and the callbacks are
\* queued with its public instance.
C29_SkippedNodeKeepsCallbacks ==
    [][RunBatchedUpdatesIterates =>
          LET node == dirtyComponents[Top.i + 1]
              ft == Innermost("flushTxn")
          IN  IF comp[node].updateBatchNumber = updateBatchNumber
              THEN /\ comp'[node].pendingCallbacks = Null
                   /\ updates' = Append(updates, <<node, updateBatchNumber>>)
              ELSE /\ updates' = updates
                   /\ comp'[node].pendingCallbacks = comp[node].pendingCallbacks
                   /\ stack'[ft].callbackQueue = stack[ft].callbackQueue]_vars

\* the scheduler is back at the top level
Quiescent == stack = <<>> /\ outcome.on

\* the node of call k of enqueueUpdate is still scheduled: it is in
\* dirtyComponents and the generation of its tag is yet to come
StillScheduled(k) ==
    /\ \E i \in DOMAIN dirtyComponents : dirtyComponents[i] = enqLog[k].node
    /\ enqLog[k].tag > updateBatchNumber

\* C30: a node enqueued with enqueueUpdate is reconciled in the generation
\* it is tagged for; nothing cancels or drops a scheduled node: when the
\* call from the top level is over, every call of enqueueUpdate made since
\* it began has been followed by the update of its node in the generation
\* of its tag, or the node is still scheduled for that generation.
C30_EnqueuedIsReconciled ==
    Quiescent =>
        \A k \in DOMAIN enqLog :
            \/ UpdatesSince(enqLog[k].at, enqLog[k].node, enqLog[k].tag) # {}
            \/ StillScheduled(k)

\* the loop of runBatchedUpdates is about to visit an entry of dirtyComponents
RunVisits ==
    /\ TopIs("run")
    /\ ~ret.on
    /\ Top.pc = "loop"
    /\ Top.i < Top.len

\* the node the loop is about to visit
Visited == dirtyComponents[Top.i + 1]

\* C31: whenever a flush pass of generation g hands a node to
\* ReactReconciler.performUpdateIfNecessary, the _updateBatchNumber of the
\* node is unset, g or g + 1: the condition of the 'Unexpected batch number'
\* warning is never reached.
C31_BatchNumberInWindow ==
    RunVisits =>
        comp[Visited].updateBatchNumber
            \in {NullBatch, updateBatchNumber, updateBatchNumber + 1}

\* C32: whenever flushBatchedUpdates returns normally the scheduler is idle:
\* dirtyComponents is empty, asapEnqueued is false and asapCallbackQueue
\* holds no callback.
C32_IdleWhenFlushReturns ==
    [][FlushBatchedUpdatesReturns =>
          /\ ret' = Ret(NoError)
          /\ dirtyComponents' = <<>>
          /\ asapEnqueued' = FALSE
          /\ OrEmpty(asapCallbackQueue'.callbacks) = <<>>
          /\ OrEmpty(asapCallbackQueue'.contexts) = <<>>]_vars

\* C32 witness: flushBatchedUpdates has returned normally to
\* FLUSH_BATCHED_UPDATES.close after a pass and an asap callback
C32_Witness ==
    /\ TopIs("batch")
    /\ ret = Ret(NoError)
    /\ Top.phase = "close"
    /\ BATCH_WRAPPERS[Top.idx] = "FLUSH_BATCHED_UPDATES"
    /\ updates # <<>>
    /\ \E i \in DOMAIN cbLog : cbLog[i][1] = AsapCallback(1)
    /\ dirtyComponents = <<>>
    /\ ~asapEnqueued

\* an asap callback is executing
AsapCallbackRuns == TopIs("user") /\ Top.ctx = "asap"

\* the batching scope is about to end without an error
ScopeEndsNormally ==
    /\ Len(stack) = 1
    /\ TopIs("batch")
    /\ ~ret.on
    /\ Top.phase = "close"
    /\ BATCH_WRAPPERS[Top.idx] = "RESET_BATCHED_UPDATES"
    /\ Top.err = NoError

\* the invocations of callback c since the call from the top level began
Invocations(c) == {i \in DOMAIN cbLog : cbLog[i][1] = c}

\* C33: every callback accepted by asap is invoked exactly once, and only at
\* the end of the whole draining loop: no asap callback is invoked while a
\* flush pass, its close hooks included, is still executing.
C33_AsapOnceAfterDrain ==
    /\ AsapCallbackRuns => Frames("flushTxn") = {}
    /\ \A a \in 1..MaxAsap : Cardinality(Invocations(AsapCallback(a))) <= 1
    /\ ScopeEndsNormally =>
           \A i \in DOMAIN Top.asaps : Cardinality(Invocations(Top.asaps[i])) = 1

\* the part of C33 that is about the number of invocations
AsapExactlyOnce ==
    /\ \A a \in 1..MaxAsap : Cardinality(Invocations(AsapCallback(a))) <= 1
    /\ ScopeEndsNormally =>
           \A i \in DOMAIN Top.asaps : Cardinality(Invocations(Top.asaps[i])) = 1

\* the call from the top level is over: the update of a node threw in a
\* pass, and every enqueueUpdate of the call was made before the pass
FailedPassOver ==
    /\ Quiescent
    /\ outcome.err # NoError
    /\ thrown.ctx = "update"
    /\ updates # <<>>
    /\ \A k \in DOMAIN enqLog : enqLog[k].ctx \in {"top", "fn"}

\* C34: a failed flush pass is not reattempted: when the update of a node
\* throws in a pass during which no node was scheduled, NESTED_UPDATES.close
\* empties dirtyComponents and does not drain again, so the failing node is
\* not updated a second time, the nodes after it in mount order are not
\* updated by this drain, and nothing is left in the queue for a later pass.
C34_FailedPassNotReattempted ==
    [][/\ (NestedUpdatesClose /\ Top.err # NoError
              /\ Len(dirtyComponents) = Top.dirtyComponentsLength)
          => (dirtyComponents' = <<>> /\ Len(stack') = Len(stack))
       /\ FailedPassOver' =>
              LET failing == updates'[Len(updates')][1]
              IN  /\ dirtyComponents' = <<>>
                  /\ Cardinality({i \in DOMAIN updates' : updates'[i][1] = failing}) = 1
                  /\ \A k \in DOMAIN enqLog' :
                         MountOrder(enqLog'[k].node) > MountOrder(failing) =>
                             \A i \in DOMAIN updates' :
                                 updates'[i][1] # enqLog'[k].node]_vars

\* C34 witness: two nodes were scheduled, the update of the first in mount
\* order threw, and the call is over
C34_Witness ==
    /\ FailedPassOver
    /\ Len(updates) = 1
    /\ \E k \in DOMAIN enqLog : MountOrder(enqLog[k].node) > MountOrder(updates[1][1])
    /\ dirtyComponents = <<>>

\* C35: while a batching scope is open, enqueueUpdate(node) appends exactly
\* one entry for the node at the end of dirtyComponents, without
\* deduplication, sets the _updateBatchNumber of the node to
\* updateBatchNumber + 1 only if it is unset, and changes nothing else: not
\* the generation, the other entries, the other nodes, the callbacks of the
\* node, the asap queue or the flag of the scope.
C35_EnqueueUpdateFrame ==
    [][\A n \in Nodes :
          (isBatchingUpdates /\ EnqueueUpdate(n)) =>
              /\ Len(dirtyComponents') = Len(dirtyComponents) + 1
              /\ SubSeq(dirtyComponents', 1, Len(dirtyComponents)) = dirtyComponents
              /\ dirtyComponents'[Len(dirtyComponents')] = n
              /\ comp'[n].updateBatchNumber =
                     IF comp[n].updateBatchNumber = NullBatch
                     THEN updateBatchNumber + 1
                     ELSE comp[n].updateBatchNumber
              /\ comp'[n].pendingCallbacks = comp[n].pendingCallbacks
              /\ \A o \in Nodes \ {n} : comp'[o] = comp[o]
              /\ UNCHANGED <<updateBatchNumber, asapCallbackQueue, asapEnqueued,
                             isBatchingUpdates, stack, ret>>]_vars

\* C35 witness: inside a scope enqueueUpdate was called twice for a node:
\* dirtyComponents holds it twice, tagged by the first call
C35_Witness ==
    /\ isBatchingUpdates
    /\ UserRuns
    /\ Len(enqLog) >= 2
    /\ enqLog[Len(enqLog)].was # NullBatch
    /\ enqLog[Len(enqLog)].tag = enqLog[Len(enqLog)].was
    /\ enqLog[Len(enqLog)].cb = 0
    /\ Len(dirtyComponents) >= 2
    /\ dirtyComponents[Len(dirtyComponents)] = enqLog[Len(enqLog)].node
    /\ \E i \in 1..(Len(dirtyComponents) - 1) :
           dirtyComponents[i] = enqLog[Len(enqLog)].node

\* the root is being mounted: the user code of the mount has not returned
MountRuns == \E k \in DOMAIN stack : stack[k].kind = "user" /\ stack[k].ctx = "mount"

\* the calls of enqueueUpdate made by the user code of the mount
ScheduledByMount == {k \in DOMAIN enqLog : enqLog[k].ctx = "mount"}

\* the mount is batched: a scope is open while it runs, and when a render
\* called at the top level has returned every update the mounts scheduled
\* has been reconciled
MountInsideScope ==
    /\ MountRuns => isBatchingUpdates
    /\ (ReturnedNormally /\ outcome.call = "render") =>
           /\ \A k \in ScheduledByMount : ReconciledSince(k)
           /\ dirtyComponents = <<>>

RunBatchedUpdatesChecks == TopIs("run") /\ Top.pc = "start"

\* C37: whenever runBatchedUpdates starts, also in a pass started by the
\* recursive drain of a close hook, the length recorded by
\* NESTED_UPDATES.initialize equals the live length of dirtyComponents: the
\* fatal length check at the start of the pass never fires.
C37_RecordedLengthMatches ==
    RunBatchedUpdatesChecks =>
        stack[Innermost("flushTxn")].dirtyComponentsLength = Len(dirtyComponents)

\* C37 witness: runBatchedUpdates starts in a pass of the recursive drain of
\* NESTED_UPDATES.close, after asap and enqueueUpdate calls
C37_Witness ==
    /\ RunBatchedUpdatesChecks
    /\ Cardinality(Frames("flushTxn")) = 2
    /\ Len(dirtyComponents) >= 1
    /\ asapEnqueued

\* C38: if a callback throws during notifyAll the error leaves notifyAll:
\* the callbacks queued after it are invoked neither by this call nor by a
\* later one, because the lists were detached before the loop, and the queue
\* then holds only the pairs that the callbacks of this call enqueued.
C38_ThrowSkipsTheRest ==
    [][cqRun.pc = "throw" =>
          /\ Len(cqRun.done) = cqRun.i + 1
          /\ Len(cqRun.done) <= Len(cqRun.exp)
          /\ \A k \in 1..Len(cqRun.done) :
                 <<cqRun.done[k][1], cqRun.done[k][2]>> = cqRun.exp[k]
          /\ cqRun.pure => Pairs(cq) = cqRun.added
          /\ cqRun' = NoRun
          /\ cq' = cq]_vars

\* C38 witness: the first of two callbacks enqueued a pair and threw
C38_Witness ==
    /\ cqRun.pc = "throw"
    /\ Len(cqRun.exp) = 2
    /\ Len(cqRun.done) = 1
    /\ cqRun.pure
    /\ Len(cqRun.added) = 1
    /\ cqRun.added[1] # cqRun.exp[2]

\* the dispatcher with the queue of the transaction notified after each
\* operation: one call per reconcile transaction, or unmountComponent
\* outside of one
RCOneCall == rc.inTxn => rc.calls = <<>>

NextRCEach ==
    \/ RCTransactionBegin
    \/ \E element \in Elements, context \in RCContexts :
           RCOneCall /\ RCMountComponent(element, context)
    \/ \E nextElement \in Elements, context \in RCContexts, throws \in BOOLEAN :
           RCOneCall /\ RCReceiveComponent(nextElement, context, throws)
    \/ \E safely \in BOOLEAN : RCOneCall /\ RCUnmountComponent(safely)
    \/ RCTransactionClose

SpecRCEach == InitRC /\ [][NextRCEach]_vars

\* the effects a step adds to the log
RCNewEffects ==
    IF Len(rc'.log) > Len(rc.log) /\ SubSeq(rc'.log, 1, Len(rc.log)) = rc.log
    THEN {rc'.log[i] : i \in (Len(rc.log) + 1)..Len(rc'.log)}
    ELSE {}

\* C39: when the queue is notified after each operation on the node, at
\* most one ref is attached at any time; a ref is attached only when none
\* is attached, and detached only when it is attached (so once for each
\* attach, and never a ref that was not attached); the update that changes
\* the ref target and the unmount leave the old ref detached.
C39_RefAttachedAndDetachedOnce ==
    [][/\ Cardinality(rc'.attached) <= 1
       /\ \A e \in RCNewEffects :
            /\ e.op = "attachRef" => rc.attached = {}
            /\ e.op = "detachRef" =>
                   /\ <<e.ref, e.owner>> \in rc.attached
                   /\ <<e.ref, e.owner>> \notin rc'.attached
       /\ ~rc'.node.mounted => rc'.attached = {}
       /\ (/\ rc.node.mounted
           /\ rc'.node.mounted
           /\ rc'.node._currentElement # rc.node._currentElement)
          => rc'.attached \subseteq {RefTarget(rc'.node._currentElement)}]_vars

\* the scheduler when no update, callback or asap callback throws (none
\* makes a call that fails either); the calls user code makes are bounded
\* by the budget, so only finitely many updates and asap callbacks are
\* scheduled in total
InitNoThrow ==
    /\ cq = CallbackQueue(Undefined)
    /\ cqRun = NoRun
    /\ cqGhost = <<>>
    /\ cqTampered = FALSE
    /\ cqMark = NoMark
    /\ InitTx
    /\ SchedIdle
    /\ budget \in {b \in Budgets : b.throws = 0}
    /\ rc = RCUnused
    /\ created = <<>>

NextNoThrow ==
    \/ \E n \in Nodes : EnqueueUpdate(n)
    \/ \E n \in Nodes : EnqueueCallback(n)
    \/ \E direct \in BOOLEAN : BatchedUpdates(direct)
    \/ RenderNewRootComponent
    \/ InjectBatchingStrategy
    \/ InjectReconcileTransaction
    \/ \E call \in {"enqueueUpdate", "batchedUpdates"} :
           stack = <<>> /\ EnsureInjectedFails(call)
    \/ Asap
    \/ AsapOutsideBatch
    \/ EnqueueDidUpdate
    \/ UserReturns
    \/ UserResumes
    \/ BatchMethodEnds
    \/ FlushBatchedUpdatesClose
    \/ FlushBatchedUpdatesCloseEnds
    \/ ResetBatchedUpdatesClose
    \/ FlushBatchedUpdatesReturns
    \/ FlushBatchedUpdatesPerform
    \/ FlushBatchedUpdatesPerformed
    \/ FlushBatchedUpdatesAsap
    \/ FlushBatchedUpdatesNotified
    \/ NestedUpdatesInitialize
    \/ UpdateQueueingInitialize
    \/ FlushTransactionMethod
    \/ FlushTransactionMethodEnds
    \/ NestedUpdatesClose
    \/ NestedUpdatesCloseEnds
    \/ UpdateQueueingClose
    \/ UpdateQueueingCloseEnds
    \/ FlushTransactionReturns
    \/ OnDomReadyInitialize
    \/ ReconcileTransactionMethod
    \/ ReconcileTransactionMethodEnds
    \/ OnDomReadyClose
    \/ OnDomReadyCloseEnds
    \/ ReconcileTransactionReturns
    \/ RunBatchedUpdatesStarts
    \/ RunBatchedUpdatesIterates
    \/ RunBatchedUpdatesUpdated
    \/ RunBatchedUpdatesReturns
    \/ NotifyAllCalls
    \/ NotifyAllCalled
    \/ NotifyAllReturns

\* a call is on the stack: the code runs to completion, no operation
\* suspends, so the call goes on as long as it has a step to take
CallGoesOn == stack # <<>> /\ NextNoThrow

SpecNoThrow == InitNoThrow /\ [][NextNoThrow]_vars /\ WF_vars(CallGoesOn)

\* a call of flushBatchedUpdates is running
FlushRuns == \E k \in DOMAIN stack : stack[k].kind = "flush"

\* C40: when nothing throws and only finitely many updates and asap
\* callbacks are scheduled, every flushBatchedUpdates terminates: the drain
\* loop and the recursive drains of NESTED_UPDATES.close come to an end with
\* dirtyComponents empty and asapEnqueued false.
C40_FlushTerminates ==
    FlushRuns ~> (~FlushRuns /\ Len(dirtyComponents) = 0 /\ ~asapEnqueued)

\* C40 witness: the flushBatchedUpdates called by NESTED_UPDATES.close has
\* returned after passes and an asap callback, with nothing left to drain
C40_Witness ==
    /\ TopIs("flushTxn")
    /\ ret = Ret(NoError)
    /\ Top.phase = "close"
    /\ FlushWrapper(Top) = "NESTED_UPDATES"
    /\ Len(updates) >= 2
    /\ \E i \in DOMAIN cbLog : cbLog[i][1] = AsapCallback(1)
    /\ dirtyComponents = <<>>
    /\ ~asapEnqueued

====
